---- MODULE Spec2Model ----
(***************************************************************************)
(* Integer power functions of NumbersAndCalculus                           *)
(* (include/number_calc/integral_power_functions/*.hpp) and the constexpr  *)
(* power-of-two lookup tables.                                             *)
(*                                                                         *)
(* C++ integers are modelled at their true width (8, 16, 32, 64 and 128    *)
(* bits).  TLC integers are 32 bit, so a C++ value is an exact integer     *)
(* held as sign and magnitude, the magnitude a little-endian sequence of   *)
(* limbs in base Radix; every C++ operation is the exact operation         *)
(* followed by reduction into the type (two's complement wrap modulo 2^w), *)
(* and records in a flag whether the exact value was out of range.         *)
(***************************************************************************)
EXTENDS Integers, Sequences, FiniteSets, TLC

\* ------------------------------------------------------------------------
\* Exact natural numbers: little-endian limb sequences without leading zeros
\* ------------------------------------------------------------------------

\* A limb is one byte, the unit sizeof() counts in.
ByteBits == 8

Radix == 2^ByteBits
LimbBits == ByteBits

\* <<F(1), ..., F(n)>> as a tuple with every element evaluated
Tabulate(F(_), n) ==
  IF n <= 0 THEN <<>> ELSE SubSeq([i \in 1..n |-> F(i)], 1, n)

\* F(i) + ... + F(n), summed by halves
RECURSIVE Sum(_, _, _)
Sum(F(_), i, n) ==
  IF i > n THEN 0
  ELSE IF i = n THEN F(i)
  ELSE LET mid == (i + n) \div 2
       IN Sum(F, i, mid) + Sum(F, mid + 1, n)

Min2(a, b) == IF a < b THEN a ELSE b
Max2(a, b) == IF a > b THEN a ELSE b

\* Strip the leading zero limbs.
MNorm(m) ==
  LET nz == {i \in 1..Len(m) : m[i] # 0}
  IN IF nz = {} THEN <<>>
     ELSE SubSeq(m, 1, CHOOSE i \in nz : \A j \in nz : j <= i)

RECURSIVE MFromNat(_)
MFromNat(n) == IF n = 0 THEN <<>> ELSE <<n % Radix>> \o MFromNat(n \div Radix)

\* -1, 0, 1 as a < b, a = b, a > b: decided by the length, then by the
\* highest limb that differs
MCmp(a, b) ==
  IF Len(a) < Len(b) THEN -1
  ELSE IF Len(a) > Len(b) THEN 1
  ELSE LET diff == {i \in 1..Len(a) : a[i] # b[i]}
       IN IF diff = {} THEN 0
          ELSE LET i == CHOOSE k \in diff : \A j \in diff : j <= k
               IN IF a[i] < b[i] THEN -1 ELSE 1

MLimb(m, i) == IF i >= 1 /\ i <= Len(m) THEN m[i] ELSE 0

\* The limbs of the number whose columns are s, each column in
\* 0 .. 2 * Radix - 2 and the last one without carry out.  The carry into
\* column k is 1 exactly when a lower column j overflows by itself and every
\* column between j and k is Radix - 1 (carry lookahead).
MRipple(s) ==
  LET CarryIn(k) == \E j \in 1..(k - 1) :
                      /\ s[j] >= Radix
                      /\ \A i \in (j + 1)..(k - 1) : s[i] = Radix - 1
      F(k) == (s[k] + (IF CarryIn(k) THEN 1 ELSE 0)) % Radix
  IN MNorm(Tabulate(F, Len(s)))

MAdd(a, b) ==
  LET S(i) == MLimb(a, i) + MLimb(b, i)
  IN MRipple(Tabulate(S, Max2(Len(a), Len(b)) + 1))

\* a - b for a >= b.  The borrow into column k is 1 exactly when a lower
\* column j is negative and every column between j and k is 0.
MSub(a, b) ==
  LET D(i) == a[i] - MLimb(b, i)
      d == Tabulate(D, Len(a))
      BorrowIn(k) == \E j \in 1..(k - 1) :
                       /\ d[j] < 0
                       /\ \A i \in (j + 1)..(k - 1) : d[i] = 0
      F(k) == (d[k] - (IF BorrowIn(k) THEN 1 ELSE 0)) % Radix
  IN MNorm(Tabulate(F, Len(a)))

\* Column k of the schoolbook product: the sum of a[i] * b[k + 1 - i]
MColSum(a, b, k) ==
  LET F(i) == a[i] * b[k + 1 - i]
  IN Sum(F, Max2(1, k + 1 - Len(b)), Min2(Len(a), k))

\* Every column keeps its low limb and takes the rest of the column below:
\* same number, smaller columns.
MLocalCarry(v) ==
  LET G(k) == (v[k] % Radix) + (IF k > 1 THEN v[k - 1] \div Radix ELSE 0)
  IN Tabulate(G, Len(v))

\* Schoolbook product.  A column of the product is below Radix^3, so three
\* local carries bring every column to at most Radix.
MMul(a, b) ==
  LET F(k) == MColSum(a, b, k)
  IN IF a = <<>> \/ b = <<>> THEN <<>>
     ELSE MRipple(MLocalCarry(MLocalCarry(MLocalCarry(
            Tabulate(F, Len(a) + Len(b))))))

\* 2^k
MPow2(k) ==
  LET F(i) == IF i = k \div LimbBits + 1 THEN 2^(k % LimbBits) ELSE 0
  IN Tabulate(F, k \div LimbBits + 1)

\* m mod 2^k
MModPow2(m, k) ==
  LET q == k \div LimbBits
      r == k % LimbBits
      F(i) == IF i = q + 1 THEN m[i] % (2^r) ELSE m[i]
  IN MNorm(Tabulate(F, Min2(Len(m), q + 1)))

\* Bitwise and of two limbs, and of two naturals
RECURSIVE BitAnd(_, _)
BitAnd(a, b) ==
  IF a = 0 \/ b = 0 THEN 0
  ELSE (a % 2) * (b % 2) + 2 * BitAnd(a \div 2, b \div 2)

MAnd(a, b) ==
  LET F(i) == BitAnd(a[i], b[i])
  IN MNorm(Tabulate(F, Min2(Len(a), Len(b))))

\* m div 2^d
MShr(m, d) ==
  LET q == d \div LimbBits
      r == d % LimbBits
      F(i) == (m[i + q] \div (2^r))
              + (MLimb(m, i + q + 1) % (2^r)) * (2^(LimbBits - r))
  IN MNorm(Tabulate(F, Len(m) - q))

\* ------------------------------------------------------------------------
\* Exact integers
\* ------------------------------------------------------------------------

Z(neg, mag) == [neg |-> neg /\ mag # <<>>, mag |-> mag]
ZNat(n) == Z(FALSE, MFromNat(n))
ZInt(n) == IF n < 0 THEN Z(TRUE, MFromNat(-n)) ELSE ZNat(n)
ZZero == ZNat(0)
ZOne == ZNat(1)
ZTwo == ZNat(2)
ZMinusOne == ZInt(-1)
ZNeg(a) == Z(~a.neg, a.mag)
ZAbs(a) == Z(FALSE, a.mag)
ZMul(a, b) == Z(a.neg # b.neg, MMul(a.mag, b.mag))
ZPow2(k) == Z(FALSE, MPow2(k))

ZCmp(a, b) ==
  IF a.neg /\ ~b.neg THEN -1
  ELSE IF ~a.neg /\ b.neg THEN 1
  ELSE IF a.neg THEN MCmp(b.mag, a.mag)
  ELSE MCmp(a.mag, b.mag)

ZLt(a, b) == ZCmp(a, b) < 0
ZLe(a, b) == ZCmp(a, b) <= 0

ZAdd(a, b) ==
  IF a.neg = b.neg THEN Z(a.neg, MAdd(a.mag, b.mag))
  ELSE IF MCmp(a.mag, b.mag) >= 0 THEN Z(a.neg, MSub(a.mag, b.mag))
  ELSE Z(b.neg, MSub(b.mag, a.mag))

ZSub(a, b) == ZAdd(a, ZNeg(b))

\* ------------------------------------------------------------------------
\* The integral types (LP64, gcc/clang): name, sizeof, signedness
\* ------------------------------------------------------------------------

Ty(name, size, signed) == [name |-> name, size |-> size, signed |-> signed]

int8_t == Ty("int8_t", 1, TRUE)
uint8_t == Ty("uint8_t", 1, FALSE)
int16_t == Ty("int16_t", 2, TRUE)
uint16_t == Ty("uint16_t", 2, FALSE)
int32_t == Ty("int32_t", 4, TRUE)
uint32_t == Ty("uint32_t", 4, FALSE)
int64_t == Ty("int64_t", 8, TRUE)
uint64_t == Ty("uint64_t", 8, FALSE)
int128_t == Ty("__int128", 16, TRUE)
uint128_t == Ty("unsigned __int128", 16, FALSE)

SmallTypes == {int8_t, uint8_t, int16_t, uint16_t}
TableTypes == SmallTypes \cup {int32_t, uint32_t}
AllTypes == TableTypes \cup {int64_t, uint64_t, int128_t, uint128_t}

is_signed_extended_v(T) == T.signed
Bits(T) == T.size * ByteBits

TMax(T) ==
  IF T.signed THEN ZSub(ZPow2(Bits(T) - 1), ZOne) ELSE ZSub(ZPow2(Bits(T)), ZOne)
TMin(T) == IF T.signed THEN ZNeg(ZPow2(Bits(T) - 1)) ELSE ZZero

\* TMin(T) <= z <= TMax(T), read off the limbs of z
InRange(T, z) ==
  LET n == Len(z.mag)
      half == Radix \div 2
  IN IF ~T.signed THEN ~z.neg /\ n <= T.size
     ELSE \/ n < T.size
          \/ n = T.size /\ z.mag[n] < half
          \/ z.neg /\ z.mag = MPow2(Bits(T) - 1)

\* Conversion of an exact value into T: reduction modulo 2^w, read as two's
\* complement when T is signed.
Residue(neg, m, w) == IF neg /\ m # <<>> THEN MSub(MPow2(w), m) ELSE m

TwosComplement(T, u) ==
  IF T.signed /\ MCmp(u, MPow2(Bits(T) - 1)) >= 0
  THEN Z(TRUE, MSub(MPow2(Bits(T)), u))
  ELSE Z(FALSE, u)

Wrap(T, z) ==
  IF InRange(T, z) THEN z
  ELSE TwosComplement(T, Residue(z.neg, MModPow2(z.mag, Bits(T)), Bits(T)))

\* Integer promotion: operands narrower than int are computed in int.
ArithType(T) == IF T.size < int32_t.size THEN int32_t ELSE T

\* The C++ value of an arithmetic expression of exact value z stored in a T:
\* val is the stored value, ovf says z did not fit T, ub says the arithmetic
\* itself overflowed a signed type (undefined behaviour; the builds wrap).
Store(T, z) ==
  [val |-> Wrap(T, z),
   ovf |-> ~InRange(T, z),
   ub  |-> ArithType(T).signed /\ ~InRange(ArithType(T), z)]

CMul(T, a, b) == Store(T, ZMul(a, b))
CNeg(T, a) == Store(T, ZNeg(a))

\* T{1} << n
CShl(T, n) ==
  IF n >= 0 /\ n < Bits(ArithType(T))
  THEN [val |-> Wrap(T, ZPow2(n)), ovf |-> ~InRange(T, ZPow2(n)), ub |-> FALSE]
  ELSE [val |-> Wrap(T, ZPow2(n % Bits(ArithType(T)))), ovf |-> TRUE, ub |-> TRUE]

\* ------------------------------------------------------------------------
\* The constexpr tables of powers of two
\* ------------------------------------------------------------------------

\* The value of a decimal literal of up to 18 digits, too large for a TLC
\* integer: the digits before the last nine, times 10^9, plus the last nine.
DecDigits(digits, i, n) == Sum(LAMBDA k : digits[k] * 10^(n - k), i, n)

ZDec(digits) ==
  LET n == Len(digits)
  IN IF n <= 9 THEN ZNat(DecDigits(digits, 1, n))
     ELSE ZAdd(ZMul(ZNat(DecDigits(digits, 1, n - 9)), ZNat(10^9)),
               ZNat(DecDigits(digits, n - 8, n)))

\* The int8_t table with one entry too many: 2^7 does not fit int8_t.
power_of_2_int8_OneTooMany ==
  <<ZNat(1), ZNat(2), ZNat(4), ZNat(8), ZNat(16), ZNat(32), ZNat(64),
    ZNat(128)>>

\* lookup_tables/power_of_2_lookup_tables.hpp
power_of_2_int8 ==
  <<ZNat(1), ZNat(2), ZNat(4), ZNat(8), ZNat(16), ZNat(32), ZNat(64)>>

power_of_2_uint8 ==
  <<ZNat(1), ZNat(2), ZNat(4), ZNat(8), ZNat(16), ZNat(32), ZNat(64),
    ZNat(128)>>

power_of_2_int16 ==
  <<ZNat(1), ZNat(2), ZNat(4), ZNat(8), ZNat(16), ZNat(32), ZNat(64),
    ZNat(128), ZNat(256), ZNat(512), ZNat(1024), ZNat(2048), ZNat(4096),
    ZNat(8192), ZNat(16384)>>

power_of_2_uint16 ==
  <<ZNat(1), ZNat(2), ZNat(4), ZNat(8), ZNat(16), ZNat(32), ZNat(64),
    ZNat(128), ZNat(256), ZNat(512), ZNat(1024), ZNat(2048), ZNat(4096),
    ZNat(8192), ZNat(16384), ZNat(32768)>>

power_of_2_int32 ==
  <<ZNat(1), ZNat(2), ZNat(4), ZNat(8), ZNat(16), ZNat(32), ZNat(64),
    ZNat(128), ZNat(256), ZNat(512), ZNat(1024), ZNat(2048), ZNat(4096),
    ZNat(8192), ZNat(16384), ZNat(32768), ZNat(65536), ZNat(131072),
    ZNat(262144), ZNat(524288), ZNat(1048576), ZNat(2097152),
    ZNat(4194304), ZNat(8388608), ZNat(16777216), ZNat(33554432),
    ZNat(67108864), ZNat(134217728), ZNat(268435456), ZNat(536870912),
    ZNat(1073741824)>>

power_of_2_uint32 ==
  <<ZNat(1), ZNat(2), ZNat(4), ZNat(8), ZNat(16), ZNat(32), ZNat(64),
    ZNat(128), ZNat(256), ZNat(512), ZNat(1024), ZNat(2048), ZNat(4096),
    ZNat(8192), ZNat(16384), ZNat(32768), ZNat(65536), ZNat(131072),
    ZNat(262144), ZNat(524288), ZNat(1048576), ZNat(2097152),
    ZNat(4194304), ZNat(8388608), ZNat(16777216), ZNat(33554432),
    ZNat(67108864), ZNat(134217728), ZNat(268435456), ZNat(536870912),
    ZNat(1073741824), ZDec(<<2, 1, 4, 7, 4, 8, 3, 6, 4, 8>>)>>

\* simplified_power_tables_cpp14.hpp
cpp14_power_of_2_int8 ==
  <<ZNat(1), ZNat(2), ZNat(4), ZNat(8), ZNat(16), ZNat(32), ZNat(64)>>

cpp14_power_of_2_uint8 ==
  <<ZNat(1), ZNat(2), ZNat(4), ZNat(8), ZNat(16), ZNat(32), ZNat(64),
    ZNat(128)>>

cpp14_power_of_2_int16 ==
  <<ZNat(1), ZNat(2), ZNat(4), ZNat(8), ZNat(16), ZNat(32), ZNat(64),
    ZNat(128), ZNat(256), ZNat(512), ZNat(1024), ZNat(2048), ZNat(4096),
    ZNat(8192), ZNat(16384)>>

cpp14_power_of_2_uint16 ==
  <<ZNat(1), ZNat(2), ZNat(4), ZNat(8), ZNat(16), ZNat(32), ZNat(64),
    ZNat(128), ZNat(256), ZNat(512), ZNat(1024), ZNat(2048), ZNat(4096),
    ZNat(8192), ZNat(16384), ZNat(32768)>>

cpp14_power_of_2_int32 ==
  <<ZNat(1), ZNat(2), ZNat(4), ZNat(8), ZNat(16), ZNat(32), ZNat(64),
    ZNat(128), ZNat(256), ZNat(512), ZNat(1024), ZNat(2048), ZNat(4096),
    ZNat(8192), ZNat(16384), ZNat(32768), ZNat(65536), ZNat(131072),
    ZNat(262144), ZNat(524288), ZNat(1048576), ZNat(2097152),
    ZNat(4194304), ZNat(8388608), ZNat(16777216), ZNat(33554432),
    ZNat(67108864), ZNat(134217728), ZNat(268435456), ZNat(536870912),
    ZNat(1073741824)>>

cpp14_power_of_2_uint32 ==
  <<ZNat(1), ZNat(2), ZNat(4), ZNat(8), ZNat(16), ZNat(32), ZNat(64),
    ZNat(128), ZNat(256), ZNat(512), ZNat(1024), ZNat(2048), ZNat(4096),
    ZNat(8192), ZNat(16384), ZNat(32768), ZNat(65536), ZNat(131072),
    ZNat(262144), ZNat(524288), ZNat(1048576), ZNat(2097152),
    ZNat(4194304), ZNat(8388608), ZNat(16777216), ZNat(33554432),
    ZNat(67108864), ZNat(134217728), ZNat(268435456), ZNat(536870912),
    ZNat(1073741824), ZDec(<<2, 1, 4, 7, 4, 8, 3, 6, 4, 8>>)>>

\* ------------------------------------------------------------------------
\* State
\* ------------------------------------------------------------------------

\* error_handling.hpp: its own copy of the int8_t table
error_handling_power_of_2_int8 ==
  <<ZNat(1), ZNat(2), ZNat(4), ZNat(8), ZNat(16), ZNat(32), ZNat(64)>>

VARIABLES
  tables,   \* the tables in memory: header -> element type -> entries
  pc,       \* "ready": arguments chosen, "done": the call has returned
  fn,       \* the function that was called
  argT,     \* its type argument T
  argBase,  \* its base argument (a value of T)
  argExp,   \* its exponent argument (U is int throughout)
  ret       \* what the call produced

vars == <<tables, pc, fn, argT, argBase, argExp, ret>>

\* std::array<T, N> initialised from the literals: each literal is converted
\* to the element type.
ArrayOf(T, literals) ==
  LET F(i) == Wrap(T, literals[i])
  IN Tabulate(F, Len(literals))

LookupTables ==
  [int8_t   |-> ArrayOf(int8_t, power_of_2_int8),
   uint8_t  |-> ArrayOf(uint8_t, power_of_2_uint8),
   int16_t  |-> ArrayOf(int16_t, power_of_2_int16),
   uint16_t |-> ArrayOf(uint16_t, power_of_2_uint16),
   int32_t  |-> ArrayOf(int32_t, power_of_2_int32),
   uint32_t |-> ArrayOf(uint32_t, power_of_2_uint32)]

Cpp14Tables ==
  [int8_t   |-> ArrayOf(int8_t, cpp14_power_of_2_int8),
   uint8_t  |-> ArrayOf(uint8_t, cpp14_power_of_2_uint8),
   int16_t  |-> ArrayOf(int16_t, cpp14_power_of_2_int16),
   uint16_t |-> ArrayOf(uint16_t, cpp14_power_of_2_uint16),
   int32_t  |-> ArrayOf(int32_t, cpp14_power_of_2_int32),
   uint32_t |-> ArrayOf(uint32_t, cpp14_power_of_2_uint32)]

ErrorHandlingTables ==
  [int8_t |-> ArrayOf(int8_t, error_handling_power_of_2_int8)]

\* ------------------------------------------------------------------------
\* Table accessors.  A call either returns a value or throws.
\* ------------------------------------------------------------------------

Returned(v) == [ok |-> TRUE, val |-> v, why |-> "returned"]
Thrown(what) == [ok |-> FALSE, val |-> ZZero, why |-> what]

\* std::nullopt
Nullopt == [ok |-> FALSE, val |-> ZZero, why |-> "nullopt"]

\* lookup_tables/power_of_2_lookup_tables.hpp (std::optional accessors)
get_power_of_2_int8_safe(exp) ==
  IF exp < 0 \/ exp >= Len(tables.lookup.int8_t)
  THEN Nullopt
  ELSE Returned(tables.lookup.int8_t[exp + 1])

get_power_of_2_uint8_safe(exp) ==
  IF exp < 0 \/ exp >= Len(tables.lookup.uint8_t)
  THEN Nullopt
  ELSE Returned(tables.lookup.uint8_t[exp + 1])

\* The std::optional accessor named after T (int8_t and uint8_t only)
get_power_of_2_safe_(T, exp) ==
  IF T = int8_t THEN get_power_of_2_int8_safe(exp)
  ELSE get_power_of_2_uint8_safe(exp)

\* The copy of error_handling.hpp rejecting the last exponent of the table
error_handling_get_power_of_2_int8_safe_Short(exp) ==
  IF exp < 0 \/ exp >= 6
  THEN Nullopt
  ELSE Returned(tables.error_handling.int8_t[exp + 1])

\* error_handling.hpp: namespace error_handling, get_power_of_2_int8_safe
error_handling_get_power_of_2_int8_safe(exp) ==
  IF exp < 0 \/ exp >= 7
  THEN Nullopt
  ELSE Returned(tables.error_handling.int8_t[exp + 1])

\* lookup_tables/power_of_2_lookup_tables.hpp (throwing accessors)
get_power_of_2_int8(exp) ==
  IF exp < 0 \/ exp >= Len(tables.lookup.int8_t)
  THEN Thrown("out_of_range")
  ELSE Returned(tables.lookup.int8_t[exp + 1])

get_power_of_2_uint8(exp) ==
  IF exp < 0 \/ exp >= Len(tables.lookup.uint8_t)
  THEN Thrown("out_of_range")
  ELSE Returned(tables.lookup.uint8_t[exp + 1])

get_power_of_2_int16(exp) ==
  IF exp < 0 \/ exp >= Len(tables.lookup.int16_t)
  THEN Thrown("out_of_range")
  ELSE Returned(tables.lookup.int16_t[exp + 1])

\* The uint16_t accessor reading the int16_t table
get_power_of_2_uint16_WrongTable(exp) ==
  IF exp < 0 \/ exp >= Len(tables.lookup.int16_t)
  THEN Thrown("out_of_range")
  ELSE Returned(tables.lookup.int16_t[exp + 1])

get_power_of_2_uint16(exp) ==
  IF exp < 0 \/ exp >= Len(tables.lookup.uint16_t)
  THEN Thrown("out_of_range")
  ELSE Returned(tables.lookup.uint16_t[exp + 1])

get_power_of_2_int32(exp) ==
  IF exp < 0 \/ exp >= Len(tables.lookup.int32_t)
  THEN Thrown("out_of_range")
  ELSE Returned(tables.lookup.int32_t[exp + 1])

get_power_of_2_uint32(exp) ==
  IF exp < 0 \/ exp >= Len(tables.lookup.uint32_t)
  THEN Thrown("out_of_range")
  ELSE Returned(tables.lookup.uint32_t[exp + 1])

\* The generic accessor with the uint8_t branch calling the int8_t accessor
get_power_of_2_from_table_WrongBranch(T, exp) ==
  IF T = int8_t THEN get_power_of_2_int8(exp)
  ELSE IF T = uint8_t THEN get_power_of_2_int8(exp)
  ELSE IF T = int16_t THEN get_power_of_2_int16(exp)
  ELSE IF T = uint16_t THEN get_power_of_2_uint16(exp)
  ELSE Thrown("static_assert")

\* The generic accessor is instantiable for the 8 and 16 bit types only; for
\* any other T the static_assert rejects the call at compile time, recorded
\* as a call that yields no value.
get_power_of_2_from_table(T, exp) ==
  IF T = int8_t THEN get_power_of_2_int8(exp)
  ELSE IF T = uint8_t THEN get_power_of_2_uint8(exp)
  ELSE IF T = int16_t THEN get_power_of_2_int16(exp)
  ELSE IF T = uint16_t THEN get_power_of_2_uint16(exp)
  ELSE Thrown("static_assert")

\* The range test taking the last entry of every table for out of range
is_valid_power_of_2_exponent_OneLess(T, exp) ==
  IF T = int8_t THEN exp >= 0 /\ exp <= 5
  ELSE IF T = uint8_t THEN exp >= 0 /\ exp <= 6
  ELSE IF T = int16_t THEN exp >= 0 /\ exp <= 13
  ELSE IF T = uint16_t THEN exp >= 0 /\ exp <= 14
  ELSE FALSE

is_valid_power_of_2_exponent(T, exp) ==
  IF T = int8_t THEN exp >= 0 /\ exp <= 6
  ELSE IF T = uint8_t THEN exp >= 0 /\ exp <= 7
  ELSE IF T = int16_t THEN exp >= 0 /\ exp <= 14
  ELSE IF T = uint16_t THEN exp >= 0 /\ exp <= 15
  ELSE FALSE

\* simplified_power_tables_cpp14.hpp (accessors that return 0 out of range)
cpp14_get_power_of_2_int8(exp) ==
  IF exp >= 0 /\ exp < 7
  THEN Returned(tables.cpp14.int8_t[exp + 1])
  ELSE Returned(Wrap(int8_t, ZNat(0)))

cpp14_get_power_of_2_uint8(exp) ==
  IF exp >= 0 /\ exp < 8
  THEN Returned(tables.cpp14.uint8_t[exp + 1])
  ELSE Returned(Wrap(uint8_t, ZNat(0)))

cpp14_get_power_of_2_int16(exp) ==
  IF exp >= 0 /\ exp < 15
  THEN Returned(tables.cpp14.int16_t[exp + 1])
  ELSE Returned(Wrap(int16_t, ZNat(0)))

cpp14_get_power_of_2_uint16(exp) ==
  IF exp >= 0 /\ exp < 16
  THEN Returned(tables.cpp14.uint16_t[exp + 1])
  ELSE Returned(Wrap(uint16_t, ZNat(0)))

cpp14_get_power_of_2_int32(exp) ==
  IF exp >= 0 /\ exp < 31
  THEN Returned(tables.cpp14.int32_t[exp + 1])
  ELSE Returned(Wrap(int32_t, ZNat(0)))

cpp14_get_power_of_2_uint32(exp) ==
  IF exp >= 0 /\ exp < 32
  THEN Returned(tables.cpp14.uint32_t[exp + 1])
  ELSE Returned(Wrap(uint32_t, ZNat(0)))

cpp14_get_power_of_2_(T, exp) ==
  IF T = int8_t THEN cpp14_get_power_of_2_int8(exp)
  ELSE IF T = uint8_t THEN cpp14_get_power_of_2_uint8(exp)
  ELSE IF T = int16_t THEN cpp14_get_power_of_2_int16(exp)
  ELSE IF T = uint16_t THEN cpp14_get_power_of_2_uint16(exp)
  ELSE IF T = int32_t THEN cpp14_get_power_of_2_int32(exp)
  ELSE cpp14_get_power_of_2_uint32(exp)

cpp14_get_power_of_2_from_table(T, exp) ==
  IF T = int8_t THEN cpp14_get_power_of_2_int8(exp)
  ELSE IF T = uint8_t THEN cpp14_get_power_of_2_uint8(exp)
  ELSE IF T = int16_t THEN cpp14_get_power_of_2_int16(exp)
  ELSE IF T = uint16_t THEN cpp14_get_power_of_2_uint16(exp)
  ELSE IF T = int32_t THEN cpp14_get_power_of_2_int32(exp)
  ELSE IF T = uint32_t THEN cpp14_get_power_of_2_uint32(exp)
  ELSE Thrown("no specialization")

\* The accessor named after T: get_power_of_2_int8 for int8_t, and so on.
get_power_of_2_(T, exp) ==
  IF T = int8_t THEN get_power_of_2_int8(exp)
  ELSE IF T = uint8_t THEN get_power_of_2_uint8(exp)
  ELSE IF T = int16_t THEN get_power_of_2_int16(exp)
  ELSE IF T = uint16_t THEN get_power_of_2_uint16(exp)
  ELSE IF T = int32_t THEN get_power_of_2_int32(exp)
  ELSE get_power_of_2_uint32(exp)

\* benchmark_constexpr_tables.cpp: the two computations the tables are
\* compared with.
traditional_power_of_2(T, exponent) ==
  IF exponent < 0 THEN Wrap(T, ZZero) ELSE CShl(T, exponent).val

\* for (int i = 0; i < exponent; ++i) result *= 2; run for at most n
\* iterations, as two runs of about n/2.
RECURSIVE manual_loop(_, _, _, _)
manual_loop(T, s, exponent, n) ==
  IF s.i >= exponent \/ n <= 0 THEN s
  ELSE IF n = 1
  THEN [result |-> CMul(T, s.result, ZTwo).val, i |-> s.i + 1]
  ELSE manual_loop(T, manual_loop(T, s, exponent, n \div 2), exponent,
                   n - (n \div 2))

manual_power_of_2(T, exponent) ==
  IF exponent < 0 THEN Wrap(T, ZZero)
  ELSE manual_loop(T, [result |-> ZOne, i |-> 0], exponent, exponent).result

\* ------------------------------------------------------------------------
\* Binary exponentiation (basic_power_functions.hpp,
\* trait_based_specializations.hpp)
\* ------------------------------------------------------------------------

\* What a power function produced: the value, whether some multiplication,
\* negation or shift left the range of T (ovf) or overflowed a signed
\* arithmetic type (ub), and how many loop iterations and multiplications ran.
Res(v, ovf, ub, iters, mults) ==
  [val |-> v, ovf |-> ovf, ub |-> ub, iters |-> iters, mults |-> mults]

Early(v) == Res(v, FALSE, FALSE, 0, 0)

\* exp & 1 (two's complement: the low bit of a negative int is its parity)
LowBit(e) == e % 2 = 1

\* The exponent counted down by one instead of halved
Shr1_Decrement(e) == e - 1

\* exp >>= 1 (arithmetic shift: floor division by two)
Shr1(e) == e \div 2

\* The loop variables after one pass that started in s: m is the product
\* result * current_base, taken when the low bit of the exponent is set (odd),
\* and sq is the square of current_base.
LoopStep(s, odd, m, sq) ==
  [result       |-> IF odd THEN m.val ELSE s.result,
   current_base |-> sq.val,
   current_exp  |-> Shr1(s.current_exp),
   ovf          |-> s.ovf \/ (odd /\ m.ovf) \/ sq.ovf,
   ub           |-> s.ub \/ (odd /\ m.ub) \/ sq.ub,
   iters        |-> s.iters + 1,
   mults        |-> s.mults + (IF odd THEN 2 ELSE 1)]

\* The loop body with the test of the low bit lost: it multiplies every time.
LoopBody_AlwaysMultiply(T, s) ==
  LoopStep(s, TRUE, CMul(T, s.result, s.current_base),
           CMul(T, s.current_base, s.current_base))

\* The loop body with the two statements swapped: it squares before it
\* multiplies.
LoopBody_SquareFirst(T, s) ==
  LET Squared(sq) ==
        LoopStep(s, LowBit(s.current_exp), CMul(T, s.result, sq.val), sq)
  IN Squared(CMul(T, s.current_base, s.current_base))

\* The loop body with the squaring lost: current_base stays what it was.
LoopBody_NoSquare(T, s) ==
  LoopStep(s, LowBit(s.current_exp), CMul(T, s.result, s.current_base),
           [val |-> s.current_base, ovf |-> FALSE, ub |-> FALSE])

\* One pass through the body of
\*   while (current_exp > 0) { if (current_exp & 1) result *= current_base;
\*                             current_base *= current_base; current_exp >>= 1; }
LoopBody(T, s) ==
  LoopStep(s, LowBit(s.current_exp), CMul(T, s.result, s.current_base),
           CMul(T, s.current_base, s.current_base))

RECURSIVE square_and_multiply(_, _)
square_and_multiply(T, s) ==
  IF s.current_exp > 0 THEN square_and_multiply(T, LoopBody(T, s)) ELSE s

LoopEntry(b, e, ovf, ub) ==
  [result |-> ZOne, current_base |-> b, current_exp |-> e,
   ovf |-> ovf, ub |-> ub, iters |-> 0, mults |-> 0]

\* return result, after the loop
ReturnResult(s) == Res(s.result, s.ovf, s.ub, s.iters, s.mults)

\* The loop run on a base b that is itself the stored value of an expression
LoopOn(T, b, exp) ==
  square_and_multiply(T, LoopEntry(b.val, exp, b.ovf, b.ub))

\* return -result, n being the stored value of -result
ReturnNegated(s, n) ==
  Res(n.val, s.ovf \/ n.ovf, s.ub \/ n.ub, s.iters, s.mults)

\* return (exp & 1) ? -result : result
ReturnSigned(T, s, odd) ==
  IF odd THEN ReturnNegated(s, CNeg(T, s.result)) ELSE ReturnResult(s)

int_power_basic(T, base, exp) ==
  IF exp = 0 THEN Early(ZOne)
  ELSE IF exp = 1 THEN Early(base)
  ELSE IF base = ZZero THEN Early(ZZero)
  ELSE IF base = ZOne THEN Early(ZOne)
  ELSE ReturnResult(
         square_and_multiply(T, LoopEntry(base, exp, FALSE, FALSE)))

int_power(T, base, exp) == int_power_basic(T, base, exp)

\* ------------------------------------------------------------------------
\* Validation (basic_power_functions.hpp): int_power_safe, int_power_checked,
\* int_power_safe_pair.  The exponent has the type T of the base.
\* ------------------------------------------------------------------------

\* base == -1 after the usual arithmetic conversions: -1 is converted to the
\* type the comparison is made in, the maximum of T when that is unsigned.
EqualsMinusOne(T, base) == base = Wrap(ArithType(T), ZMinusOne)

\* std::numeric_limits<T>::is_specialized: true for the standard types; for
\* the 128 bit types true with the GNU extensions and false without them.
is_specialized(T) == IF T.size > uint64_t.size THEN BOOLEAN ELSE {TRUE}

\* base > max_val / base for base > 0.  The quotient is the floor of
\* max_val / base, so the test is base * base > max_val.
AboveMaxQuotient(T, base) == ZLt(TMax(T), ZMul(base, base))

\* base < min_val / (-base) for base < 0.  The quotient is min_val / |base|
\* rounded towards zero, so the test is |base| * |base| > |min_val|.
BelowMinQuotient(T, base) == ZLt(ZAbs(TMin(T)), ZMul(base, base))

\* The outcomes of the two tests under is_specialized.  -base overflows for
\* base = min(T) when T is not narrower than int: undefined behaviour, either
\* outcome.
LimitTests(T, base) ==
  IF ZLt(ZZero, base) /\ AboveMaxQuotient(T, base) THEN {FALSE}
  ELSE IF ZLt(base, ZZero)
  THEN IF CNeg(T, base).ub THEN BOOLEAN
       ELSE IF BelowMinQuotient(T, base) THEN {FALSE} ELSE {TRUE}
  ELSE {TRUE}

\* The set of values int_power_safe(base, exp) can return
int_power_safe(T, base, exp) ==
  IF exp = 0 THEN {TRUE}
  ELSE IF base = ZZero \/ base = ZOne THEN {TRUE}
  ELSE IF EqualsMinusOne(T, base) THEN {TRUE}
  ELSE UNION {IF spec THEN LimitTests(T, base) ELSE {TRUE} :
                spec \in is_specialized(T)}

\* ------------------------------------------------------------------------
\* number_calc.hpp: the step-by-step int_power_safe, which repeats the loop
\* of int_power and tests each product before it is made.
\* ------------------------------------------------------------------------

\* x > max_val / d for d # 0, the quotient rounded towards zero.  For d > 0
\* the quotient is the floor and the test is x * d > max_val; for d < 0 the
\* quotient is -floor(max_val / |d|) and the test is (1 - x) * |d| <= max_val.
GreaterThanQuotient(x, max_val, d) ==
  IF ZLt(ZZero, d) THEN ZLt(max_val, ZMul(x, d))
  ELSE ZLe(ZMul(ZSub(ZOne, x), ZAbs(d)), max_val)

\* The loop from its head, as the set of values the function can return.  A
\* division by a current_base of zero and a signed overflow of a product are
\* undefined behaviour: either value.
RECURSIVE SafeLoop(_, _, _, _)
SafeLoop(T, result, current_base, current_exp) ==
  IF current_exp <= 0 THEN {TRUE}
  ELSE IF LowBit(current_exp) /\ current_base = ZZero THEN BOOLEAN
  ELSE IF LowBit(current_exp)
          /\ GreaterThanQuotient(result, TMax(T), current_base) THEN {FALSE}
  ELSE IF LowBit(current_exp) /\ CMul(T, result, current_base).ub THEN BOOLEAN
  ELSE IF current_exp > 1 /\ current_base = ZZero THEN BOOLEAN
  ELSE IF current_exp > 1
          /\ GreaterThanQuotient(current_base, TMax(T), current_base)
       THEN {FALSE}
  ELSE IF current_exp > 1 /\ CMul(T, current_base, current_base).ub
       THEN BOOLEAN
  ELSE SafeLoop(T,
                IF LowBit(current_exp)
                THEN CMul(T, result, current_base).val ELSE result,
                IF current_exp > 1
                THEN CMul(T, current_base, current_base).val
                ELSE current_base,
                Shr1(current_exp))

\* The set of values number_calc_impl::int_power_safe(base, exp) can return;
\* numeric_limits.hpp makes every integral T of the header specialized
number_calc_int_power_safe(T, base, exp) ==
  IF exp = 0 THEN {TRUE}
  ELSE IF base = ZZero \/ base = ZOne THEN {TRUE}
  ELSE IF EqualsMinusOne(T, base) THEN {TRUE}
  ELSE SafeLoop(T, ZOne, base, exp)

\* A value returned by a function that can throw, with the record of the
\* computation behind it
ReturnedPower(r) ==
  [ok |-> TRUE, val |-> r.val, why |-> "returned", ovf |-> r.ovf, ub |-> r.ub]

ThrownPower(what) ==
  [ok |-> FALSE, val |-> ZZero, why |-> what, ovf |-> FALSE, ub |-> FALSE]

\* int_power_checked returning the power whatever int_power_safe answered
int_power_checked_Unchecked(T, base, exp, safe) ==
  ReturnedPower(int_power_basic(T, base, exp))

\* safe is the value its call of int_power_safe(base, exp) returned
int_power_checked(T, base, exp, safe) ==
  IF ~safe THEN ThrownPower("overflow_error")
  ELSE ReturnedPower(int_power_basic(T, base, exp))

\* int_power_safe_pair returning the power next to a false flag
int_power_safe_pair_KeepsValue(T, base, exp, safe) ==
  [first |-> int_power_basic(T, base, exp).val, second |-> safe]

int_power_safe_pair(T, base, exp, safe) ==
  IF ~safe THEN [first |-> Wrap(T, ZZero), second |-> FALSE]
  ELSE [first |-> int_power_basic(T, base, exp).val, second |-> TRUE]

\* int_power_signed_impl testing the base before the exponent
int_power_signed_impl_BaseFirst(T, base, exp) ==
  IF base = ZZero THEN Early(ZZero)
  ELSE IF exp = 0 THEN Early(ZOne)
  ELSE IF base = ZOne THEN Early(ZOne)
  ELSE IF base = ZMinusOne
       THEN Early(IF LowBit(exp) THEN ZMinusOne ELSE ZOne)
  ELSE IF ZLt(base, ZZero)
       THEN ReturnSigned(T, LoopOn(T, CNeg(T, base), exp), LowBit(exp))
  ELSE int_power_basic(T, base, exp)

\* int_power_signed_impl without the special case for base -1
int_power_signed_impl_NoMinusOne(T, base, exp) ==
  IF exp = 0 THEN Early(ZOne)
  ELSE IF base = ZZero THEN Early(ZZero)
  ELSE IF base = ZOne THEN Early(ZOne)
  ELSE IF ZLt(base, ZZero)
       THEN ReturnSigned(T, LoopOn(T, CNeg(T, base), exp), LowBit(exp))
  ELSE int_power_basic(T, base, exp)

\* int_power_signed_impl that forgets to re-apply the sign
int_power_signed_impl_NoSign(T, base, exp) ==
  IF exp = 0 THEN Early(ZOne)
  ELSE IF base = ZZero THEN Early(ZZero)
  ELSE IF base = ZOne THEN Early(ZOne)
  ELSE IF base = ZMinusOne
       THEN Early(IF LowBit(exp) THEN ZMinusOne ELSE ZOne)
  ELSE IF ZLt(base, ZZero) THEN ReturnResult(LoopOn(T, CNeg(T, base), exp))
  ELSE int_power_basic(T, base, exp)

int_power_signed_impl(T, base, exp) ==
  IF exp = 0 THEN Early(ZOne)
  ELSE IF base = ZZero THEN Early(ZZero)
  ELSE IF base = ZOne THEN Early(ZOne)
  ELSE IF base = ZMinusOne
       THEN Early(IF LowBit(exp) THEN ZMinusOne ELSE ZOne)
  ELSE IF ZLt(base, ZZero)
       THEN ReturnSigned(T, LoopOn(T, CNeg(T, base), exp), LowBit(exp))
  ELSE int_power_basic(T, base, exp)

int_power_unsigned_impl(T, base, exp) ==
  IF exp = 0 THEN Early(ZOne)
  ELSE IF exp = 1 THEN Early(base)
  ELSE IF base = ZZero THEN Early(ZZero)
  ELSE IF base = ZOne THEN Early(ZOne)
  ELSE ReturnResult(
         square_and_multiply(T, LoopEntry(base, exp, FALSE, FALSE)))

int_power_dispatch(T, base, exp) ==
  IF is_signed_extended_v(T)
  THEN int_power_signed_impl(T, base, exp)
  ELSE int_power_unsigned_impl(T, base, exp)

\* ------------------------------------------------------------------------
\* Powers of two and automatic detection (power_of_2_optimizations.hpp)
\* ------------------------------------------------------------------------

\* Merge the flags and counts of an earlier step into a later result.
After(first, r) ==
  Res(r.val, first.ovf \/ r.ovf, first.ub \/ r.ub,
      first.iters + r.iters, first.mults + r.mults)

OfShift(sh) == Res(sh.val, sh.ovf, sh.ub, 0, 0)

\* result *= remainder_result, m being the stored product
TimesStored(result, remainder_result, m) ==
  After(result, After(remainder_result, Res(m.val, m.ovf, m.ub, 0, 1)))

Times(T, result, remainder_result) ==
  TimesStored(result, remainder_result,
              CMul(T, result.val, remainder_result.val))

\* A chunk of 32 for signed and unsigned types alike
max_32bit_exp_Of32(T) == 32

\* constexpr U max_32bit_exp = is_signed_extended_v<T> ? 30 : 31
max_32bit_exp(T) == IF is_signed_extended_v(T) THEN 30 ELSE 31

\* U quotient = exp / max_32bit_exp; U remainder = exp % max_32bit_exp
Decomposition(T, exp) ==
  [chunk |-> max_32bit_exp(T),
   quotient |-> exp \div max_32bit_exp(T),
   remainder |-> exp % max_32bit_exp(T)]

\* The large-type power of 2 without the factor 2^remainder
int_power_2_large_optimized_NoRemainder(T, exp) ==
  IF exp = 0 THEN Early(ZOne)
  ELSE IF exp = 1 THEN Early(ZTwo)
  ELSE IF exp < 64 THEN OfShift(CShl(T, exp))
  ELSE ReturnResult(square_and_multiply(
         T, LoopEntry(CShl(T, max_32bit_exp(T)).val,
                      Decomposition(T, exp).quotient, FALSE, FALSE)))

int_power_2_large_optimized(T, exp) ==
  IF exp = 0 THEN Early(ZOne)
  ELSE IF exp = 1 THEN Early(ZTwo)
  ELSE IF exp < 64 THEN OfShift(CShl(T, exp))
  ELSE LET power_32_base == CShl(T, max_32bit_exp(T)).val
       IN IF exp <= max_32bit_exp(T) THEN OfShift(CShl(T, exp))
          ELSE LET quotient == Decomposition(T, exp).quotient
                   remainder == Decomposition(T, exp).remainder
                   WithRemainder(result) ==
                     IF remainder > 0
                     THEN Times(T, result, OfShift(CShl(T, remainder)))
                     ELSE result
               IN WithRemainder(ReturnResult(square_and_multiply(
                    T, LoopEntry(power_32_base, quotient, FALSE, FALSE))))

int_power_2(T, exp) ==
  IF exp = 0 THEN Early(ZOne)
  ELSE IF T \in SmallTypes
       THEN IF is_valid_power_of_2_exponent(T, exp)
            THEN Early(get_power_of_2_from_table(T, exp).val)
            ELSE int_power_dispatch(T, ZTwo, exp)
  ELSE IF is_signed_extended_v(T) /\ T.size = int32_t.size /\ exp < 31
       THEN OfShift(CShl(T, exp))
  ELSE IF is_signed_extended_v(T) /\ T.size = int64_t.size /\ exp < 63
       THEN OfShift(CShl(T, exp))
  ELSE IF is_signed_extended_v(T) /\ T.size = int128_t.size /\ exp < 127
       THEN OfShift(CShl(T, exp))
  ELSE IF ~is_signed_extended_v(T) /\ T.size = uint32_t.size /\ exp < 32
       THEN OfShift(CShl(T, exp))
  ELSE IF ~is_signed_extended_v(T) /\ T.size = uint64_t.size /\ exp < 64
       THEN OfShift(CShl(T, exp))
  ELSE IF ~is_signed_extended_v(T) /\ T.size = uint128_t.size /\ exp < 128
       THEN OfShift(CShl(T, exp))
  ELSE IF T.size > uint32_t.size
       THEN int_power_2_large_optimized(T, exp)
  ELSE int_power_dispatch(T, ZTwo, exp)

\* int_power_new shifting for base 2 whatever the exponent
int_power_new_ShiftOnly(T, base, exp) ==
  IF base = ZTwo THEN OfShift(CShl(T, exp))
  ELSE int_power_dispatch(T, base, exp)

int_power_new(T, base, exp) ==
  IF base = ZTwo THEN int_power_2(T, exp) ELSE int_power_dispatch(T, base, exp)

\* ------------------------------------------------------------------------
\* number_calc_v2.hpp: the single header version.  Its int_power,
\* int_power_signed_impl and int_power_unsigned_impl repeat those of the
\* modular headers statement for statement; it has no tables and takes the
\* standard integral types only.
\* ------------------------------------------------------------------------

V2Types == {t \in AllTypes : t.size <= uint64_t.size}

v2_int_power_dispatch(T, base, exp) ==
  IF T.signed THEN int_power_signed_impl(T, base, exp)
  ELSE int_power_unsigned_impl(T, base, exp)

v2_int_power_2(T, exp) ==
  IF exp = 0 THEN Early(ZOne)
  ELSE IF T.signed /\ T.size = int32_t.size /\ exp < 31
       THEN OfShift(CShl(T, exp))
  ELSE IF T.signed /\ T.size = int64_t.size /\ exp < 63
       THEN OfShift(CShl(T, exp))
  ELSE IF ~T.signed /\ T.size = uint32_t.size /\ exp < 32
       THEN OfShift(CShl(T, exp))
  ELSE IF ~T.signed /\ T.size = uint64_t.size /\ exp < 64
       THEN OfShift(CShl(T, exp))
  ELSE v2_int_power_dispatch(T, ZTwo, exp)

v2_int_power_new(T, base, exp) ==
  IF base = ZTwo THEN v2_int_power_2(T, exp)
  ELSE v2_int_power_dispatch(T, base, exp)

\* safe is the value its call of int_power_safe(base, exp) returned; the
\* header's int_power_safe is that of basic_power_functions.hpp
v2_int_power_checked(T, base, exp, safe) ==
  IF ~safe THEN ThrownPower("overflow_error")
  ELSE ReturnedPower(v2_int_power_new(T, base, exp))

\* base & (base - 1), evaluated for base > 0 only
is_power_of_2(T, base) ==
  IF ZLe(base, ZZero) THEN FALSE
  ELSE MAnd(base.mag, ZSub(base, ZOne).mag) = <<>>

\* The loop running while (temp > 0): one round too many
find_power_of_2_exponent_UntilZero(T, base) ==
  IF ~is_power_of_2(T, base) THEN -1
  ELSE Cardinality({d \in 0..(Bits(T) - 1) :
                      MCmp(MShr(base.mag, d), <<>>) > 0})

\* while (temp > 1) { temp >>= 1; ++exp; }: the body runs once for every d
\* such that temp >> d, the value of temp after d rounds, is above 1.
find_power_of_2_exponent(T, base) ==
  IF ~is_power_of_2(T, base) THEN -1
  ELSE Cardinality({d \in 0..(Bits(T) - 1) :
                      MCmp(MShr(base.mag, d), <<1>>) > 0})

\* base_chunk = static_cast<T>(result_32), result_32 a uint32_t
Widened(T, result_32) ==
  Res(Wrap(T, result_32.val), result_32.ovf, result_32.ub,
      result_32.iters, result_32.mults)

\* base^chunk_size, computed in uint32_t when base <= UINT32_MAX
base_chunk(T, base, chunk_size) ==
  IF ZLe(base, TMax(uint32_t))
  THEN Widened(T, int_power_dispatch(uint32_t, Wrap(uint32_t, base),
                                     chunk_size))
  ELSE int_power_dispatch(T, base, chunk_size)

\* while (quotient > 0) over current_base_chunk, after the chunk's own steps
ChunkLoop(T, chunk, quotient) ==
  After(chunk, ReturnResult(square_and_multiply(
                 T, LoopEntry(chunk.val, quotient, FALSE, FALSE))))

int_power_large_optimized(T, base, exp) ==
  IF exp = 0 THEN Early(ZOne)
  ELSE IF exp = 1 THEN Early(base)
  ELSE IF base = ZZero THEN Early(ZZero)
  ELSE IF base = ZOne THEN Early(ZOne)
  ELSE IF exp <= 32 THEN int_power_dispatch(T, base, exp)
  ELSE LET chunk_size == 32
           quotient == exp \div chunk_size
           remainder == exp % chunk_size
           WithRemainder(result) ==
             IF remainder > 0
             THEN Times(T, result, int_power_dispatch(T, base, remainder))
             ELSE result
       IN WithRemainder(ChunkLoop(T, base_chunk(T, base, chunk_size), quotient))

int_power_smart(T, base, exp) ==
  IF exp = 0 THEN Early(ZOne)
  ELSE IF exp = 1 THEN Early(base)
  ELSE IF base = ZZero THEN Early(ZZero)
  ELSE IF base = ZOne THEN Early(ZOne)
  ELSE IF T \in SmallTypes /\ base = ZTwo THEN int_power_2(T, exp)
  ELSE IF base = ZTwo THEN int_power_2(T, exp)
  ELSE IF is_power_of_2(T, base) /\ find_power_of_2_exponent(T, base) > 0
       THEN LET base_exp == find_power_of_2_exponent(T, base)
            IN int_power_2(T, base_exp * exp)
  ELSE IF T.size > uint64_t.size
       THEN int_power_large_optimized(T, base, exp)
  ELSE int_power_dispatch(T, base, exp)

\* ------------------------------------------------------------------------
\* io/integral_types/int128_io.hpp: decimal text of __int128.  A std::string
\* is the sequence of its characters.
\* ------------------------------------------------------------------------

DigitChars ==
  <<"0", "1", "2", "3", "4", "5", "6", "7", "8", "9">>

UpperChars ==
  <<"A", "B", "C", "D", "E", "F", "G", "H", "I", "J", "K", "L", "M", "N",
    "O", "P", "Q", "R", "S", "T", "U", "V", "W", "X", "Y", "Z">>

LowerChars ==
  <<"a", "b", "c", "d", "e", "f", "g", "h", "i", "j", "k", "l", "m", "n",
    "o", "p", "q", "r", "s", "t", "u", "v", "w", "x", "y", "z">>

IndexIn(chars, c) == CHOOSE i \in 1..Len(chars) : chars[i] = c

IsIn(chars, c) == \E i \in 1..Len(chars) : chars[i] = c

\* value / d and value % d for value >= 0 and a small d > 0.  Radix^e mod d
\* is computed by halving e; the remainder of the limbs above limb i is
\* carried into limb i, which gives limb i of the quotient.
SquareMod(x, d) == (x * x) % d

RECURSIVE RadixPowMod(_, _)
RadixPowMod(e, d) ==
  IF e = 0 THEN 1 % d
  ELSE IF e % 2 = 0 THEN SquareMod(RadixPowMod(e \div 2, d), d)
  ELSE (SquareMod(RadixPowMod(e \div 2, d), d) * (Radix % d)) % d

HighRem(m, i, d) ==
  Sum(LAMBDA k : m[k] * RadixPowMod(k - i - 1, d), i + 1, Len(m)) % d

MDivSmall(m, d) ==
  LET F(i) == (HighRem(m, i, d) * Radix + m[i]) \div d
  IN Tabulate(F, Len(m))

DivSmall(value, d) ==
  [quot |-> Z(FALSE, MNorm(MDivSmall(value.mag, d))),
   rem |-> HighRem(value.mag, 0, d)]

\* while (value > 0) { result = char('0' + value % 10) + result; value /= 10; }
\* One round of the loop is DigitRound, which leaves a finished loop as it
\* is; a value of n limbs has at most 3 * n digits, and that many rounds are
\* run, by halves, a finished loop being returned at once.
DigitPrepend(s, dm) ==
  [value |-> dm.quot, result |-> <<DigitChars[dm.rem + 1]>> \o s.result]

DigitRound(s) ==
  IF ~ZLt(ZZero, s.value) THEN s
  ELSE DigitPrepend(s, DivSmall(s.value, 10))

RECURSIVE DigitRounds(_, _)
DigitRounds(s, n) ==
  IF n <= 0 \/ ~ZLt(ZZero, s.value) THEN s
  ELSE IF n = 1 THEN DigitRound(s)
  ELSE DigitRounds(DigitRounds(s, n \div 2), n - n \div 2)

DigitLoop(value, result) ==
  DigitRounds([value |-> value, result |-> result],
              3 * Len(value.mag)).result

\* The text after value = -value, m being the stored negation: -value
\* overflows for the minimum, which is undefined behaviour and leaves the
\* minimum in value.
Negated(m) == [str |-> <<"-">> \o DigitLoop(m.val, <<>>), ub |-> m.ub]

int128_to_string(value) ==
  IF value = ZZero THEN [str |-> <<"0">>, ub |-> FALSE]
  ELSE IF ZLt(value, ZZero) THEN Negated(CNeg(int128_t, value))
  ELSE [str |-> DigitLoop(value, <<>>), ub |-> FALSE]

\* std::numeric_limits<__int128>::max(): the maximum where the library
\* specializes numeric_limits for __int128 (GNU extensions), and T() = 0 of
\* the primary template where it does not.
numeric_limits_max(T) ==
  IF T.size > uint64_t.size THEN {TMax(T), ZZero} ELSE {TMax(T)}

\* The digit of a character, -1 for a character that is none
DigitOf(c) ==
  IF IsIn(DigitChars, c) THEN IndexIn(DigitChars, c) - 1
  ELSE IF IsIn(UpperChars, c) THEN IndexIn(UpperChars, c) - 1 + 10
  ELSE IF IsIn(LowerChars, c) THEN IndexIn(LowerChars, c) - 1 + 10
  ELSE -1

\* return negative ? -result : result, m being the stored negation
Signed(negative, result, ub, m) ==
  IF negative
  THEN ReturnedPower([val |-> m.val, ovf |-> FALSE, ub |-> ub \/ m.ub])
  ELSE ReturnedPower([val |-> result, ovf |-> FALSE, ub |-> ub])

\* One round of the for loop at index s.i (from 1), s.why naming what an
\* earlier round has thrown; m is the stored result * base + digit
ParseNext(s, m) ==
  [i |-> s.i + 1, result |-> m.val, ub |-> s.ub \/ m.ub, why |-> ""]

ParseThrow(s, what) ==
  [i |-> s.i, result |-> s.result, ub |-> s.ub, why |-> what]

ParseRound(str, base, max_div, s) ==
  IF s.why # "" \/ s.i > Len(str) THEN s
  ELSE IF DigitOf(str[s.i]) < 0 THEN ParseThrow(s, "invalid_argument")
  ELSE IF DigitOf(str[s.i]) >= base THEN ParseThrow(s, "invalid_argument")
  ELSE IF ZLt(max_div, s.result) THEN ParseThrow(s, "out_of_range")
  ELSE ParseNext(s, Store(int128_t, ZAdd(ZMul(s.result, ZNat(base)),
                                         ZNat(DigitOf(str[s.i])))))

\* n rounds, run by halves, a loop that has thrown being returned at once
RECURSIVE ParseRounds(_, _, _, _, _)
ParseRounds(str, base, max_div, s, n) ==
  IF n <= 0 \/ s.why # "" THEN s
  ELSE IF n = 1 THEN ParseRound(str, base, max_div, s)
  ELSE ParseRounds(str, base, max_div,
                   ParseRounds(str, base, max_div, s, n \div 2),
                   n - n \div 2)

ParseEnd(negative, s) ==
  IF s.why # "" THEN ThrownPower(s.why)
  ELSE Signed(negative, s.result, s.ub, CNeg(int128_t, s.result))

\* The for loop from index start and what follows it
ParseLoop(str, base, max_div, negative, start) ==
  ParseEnd(negative,
           ParseRounds(str, base, max_div,
                       [i |-> start, result |-> ZZero, ub |-> FALSE,
                        why |-> ""],
                       Len(str)))

\* max_val is what std::numeric_limits<__int128>::max() returns
string_to_int128(str, base, max_val) ==
  IF str = <<>> THEN ThrownPower("invalid_argument")
  ELSE IF base < 2 \/ base > 36 THEN ThrownPower("invalid_argument")
  ELSE ParseLoop(str, base, DivSmall(max_val, base).quot, str[1] = "-",
                 IF str[1] = "-" \/ str[1] = "+" THEN 2 ELSE 1)

\* ------------------------------------------------------------------------
\* Exact reference values
\* ------------------------------------------------------------------------

\* base^exp by exp-fold multiplication starting from 1, in exact arithmetic.
\* fits is FALSE as soon as a partial product leaves the range of T: for
\* |base| >= 2 every later product is then out of range as well.  The e
\* multiplications are done as two runs of about e/2, which keeps the
\* evaluation shallow.
RECURSIVE RepeatedMul(_, _, _, _)
RepeatedMul(T, b, e, acc) ==
  IF e <= 0 \/ ~acc.fits THEN acc
  ELSE IF e = 1
  THEN LET n == ZMul(acc.val, b)
       IN IF InRange(T, n) THEN [fits |-> TRUE, val |-> n]
          ELSE [fits |-> FALSE, val |-> ZZero]
  ELSE RepeatedMul(T, b, e - (e \div 2), RepeatedMul(T, b, e \div 2, acc))

ExactPower(T, b, e) == RepeatedMul(T, b, e, [fits |-> TRUE, val |-> ZOne])

max_exponent(T) == Bits(T) - 1 - (IF T.signed THEN 1 ELSE 0)

\* ------------------------------------------------------------------------
\* Inputs
\* ------------------------------------------------------------------------

MaxBase == 4     \* small bases -MaxBase .. MaxBase
MaxExp == 7      \* exponents up to MaxExp for every base
NegExps == 1     \* exponents down to -NegExps
ExpSlack == 2    \* for base 2: exponents up to bitwidth + ExpSlack
MaxPow2K == 4    \* bases 2^k and -(2^k) for k up to MaxPow2K

LargeExps == {33, 40, 64, 80}

SmallBases(T) == {z \in {ZInt(i) : i \in (-MaxBase)..MaxBase} : InRange(T, z)}

EdgeBases(T) == {TMin(T), ZAdd(TMin(T), ZOne), ZSub(TMax(T), ZOne), TMax(T)}

Pow2Bases(T) ==
  LET ks == (1..MaxPow2K) \cup {Bits(T) \div 2, Bits(T) - 2, Bits(T) - 1}
  IN {z \in {ZPow2(k) : k \in ks} \cup {ZNeg(ZPow2(k)) : k \in ks} :
        InRange(T, z)}

Bases(T) == SmallBases(T) \cup EdgeBases(T) \cup Pow2Bases(T)

Inputs(T) ==
  (Bases(T) \X ((-NegExps)..MaxExp))
  \cup ({ZTwo} \X ((-NegExps)..(Bits(T) + ExpSlack)))
  \cup (IF T.size > uint64_t.size THEN SmallBases(T) \X LargeExps ELSE {})

\* The texts given to string_to_int128: canonical decimals of both signs up
\* to the two limits, and texts that are not canonical or not numbers.
MaxText ==
  <<"1", "7", "0", "1", "4", "1", "1", "8", "3", "4", "6", "0", "4", "6",
    "9", "2", "3", "1", "7", "3", "1", "6", "8", "7", "3", "0", "3", "7",
    "1", "5", "8", "8", "4", "1", "0", "5", "7", "2", "7">>

MinText ==
  <<"-", "1", "7", "0", "1", "4", "1", "1", "8", "3", "4", "6", "0", "4",
    "6", "9", "2", "3", "1", "7", "3", "1", "6", "8", "7", "3", "0", "3",
    "7", "1", "5", "8", "8", "4", "1", "0", "5", "7", "2", "8">>

TestPositive ==
  <<"1", "2", "3", "4", "5", "6", "7", "8", "9", "0", "1", "2", "3", "4",
    "5", "6", "7", "8", "9", "0">>

TestNegative ==
  <<"-", "9", "8", "7", "6", "5", "4", "3", "2", "1", "0", "9", "8", "7",
    "6", "5", "4", "3", "2", "1", "0">>

TooLarge ==
  <<"3", "4", "0", "2", "8", "2", "3", "6", "6", "9", "2", "0", "9", "3",
    "8", "4", "6", "3", "4", "6", "3", "3", "7", "4", "6", "0", "7", "4",
    "3", "1", "7", "6", "8", "2", "1", "1", "4", "5", "6">>

Texts ==
  {<<"0">>, <<"7">>, <<"4", "2">>, <<"-", "1">>, <<"-", "1", "2", "8">>,
   TestPositive, TestNegative, MaxText, <<"-">> \o MaxText, MinText,
   TooLarge, Tail(MinText), <<>>, <<"-">>, <<"+", "5">>, <<"0", "0", "7">>, <<"-", "0">>,
   <<"1", "a">>, <<"1", "Z">>, <<"1", " ">>}

TextBases == {10, 16, 37}

NotCalled == [ok |-> FALSE, val |-> ZZero, why |-> "not called"]

Init ==
  /\ tables = [lookup |-> LookupTables, cpp14 |-> Cpp14Tables,
               error_handling |-> ErrorHandlingTables]
  /\ pc = "ready"
  /\ fn = "none"
  /\ argT \in AllTypes
  /\ \E in \in Inputs(argT) : argBase = in[1] /\ argExp = in[2]
  /\ ret = NotCalled

Call(name, result) ==
  /\ pc = "ready"
  /\ pc' = "done"
  /\ fn' = name
  /\ ret' = result
  /\ UNCHANGED <<tables, argT, argBase, argExp>>

Call_int_power_basic ==
  Call("int_power_basic", int_power_basic(argT, argBase, argExp))

Call_int_power ==
  Call("int_power", int_power(argT, argBase, argExp))

Call_int_power_dispatch ==
  Call("int_power_dispatch", int_power_dispatch(argT, argBase, argExp))

Call_int_power_smart ==
  Call("int_power_smart", int_power_smart(argT, argBase, argExp))

Call_int_power_2 ==
  /\ argBase = ZTwo
  /\ Call("int_power_2", int_power_2(argT, argExp))

\* The table accessors are called with the exponents drawn for base 2.
TableCall(name, result) ==
  /\ argT \in TableTypes
  /\ argBase = ZTwo
  /\ Call(name, result)

Call_get_power_of_2 ==
  TableCall("get_power_of_2", get_power_of_2_(argT, argExp))

Call_get_power_of_2_from_table ==
  TableCall("get_power_of_2_from_table",
            get_power_of_2_from_table(argT, argExp))

Call_cpp14_get_power_of_2 ==
  TableCall("cpp14_get_power_of_2", cpp14_get_power_of_2_(argT, argExp))

Call_cpp14_get_power_of_2_from_table ==
  TableCall("cpp14_get_power_of_2_from_table",
            cpp14_get_power_of_2_from_table(argT, argExp))

Call_get_power_of_2_safe ==
  /\ argT \in {int8_t, uint8_t}
  /\ TableCall("get_power_of_2_safe", get_power_of_2_safe_(argT, argExp))

Call_error_handling_get_power_of_2_int8_safe ==
  /\ argT = int8_t
  /\ TableCall("error_handling_get_power_of_2_int8_safe",
               error_handling_get_power_of_2_int8_safe(argExp))

\* The functions whose exponent has type T are called with exponents of T.
CallWithExpOfT(name, result) ==
  /\ InRange(argT, ZInt(argExp))
  /\ Call(name, result)

Call_int_power_safe ==
  \E safe \in int_power_safe(argT, argBase, argExp) :
    CallWithExpOfT("int_power_safe", [ok |-> TRUE, val |-> safe])

Call_int_power_checked ==
  \E safe \in int_power_safe(argT, argBase, argExp) :
    CallWithExpOfT("int_power_checked",
                   int_power_checked(argT, argBase, argExp, safe))

Call_int_power_safe_pair ==
  \E safe \in int_power_safe(argT, argBase, argExp) :
    CallWithExpOfT("int_power_safe_pair",
                   int_power_safe_pair(argT, argBase, argExp, safe))

Call_number_calc_int_power_safe ==
  \E safe \in number_calc_int_power_safe(argT, argBase, argExp) :
    CallWithExpOfT("number_calc_int_power_safe", [ok |-> TRUE, val |-> safe])

\* The functions of one argument are called from the states with exp = 0.
Call_is_power_of_2 ==
  /\ argExp = 0
  /\ Call("is_power_of_2",
          [ok |-> TRUE, val |-> is_power_of_2(argT, argBase)])

Call_find_power_of_2_exponent ==
  /\ argExp = 0
  /\ Call("find_power_of_2_exponent",
          [ok |-> TRUE, val |-> find_power_of_2_exponent(argT, argBase)])

Call_int_power_new ==
  Call("int_power_new", int_power_new(argT, argBase, argExp))

Call_v2_int_power_new ==
  /\ argT \in V2Types
  /\ Call("v2_int_power_new", v2_int_power_new(argT, argBase, argExp))

\* The conversions are called from the __int128 states with exp = 0, and
\* string_to_int128, which takes no integer, from the one with base 0.
Call_int128_to_string ==
  /\ argT = int128_t /\ argExp = 0
  /\ Call("int128_to_string", int128_to_string(argBase))

Parsed(str, base, r) ==
  [str |-> str, base |-> base, ok |-> r.ok, val |-> r.val, why |-> r.why,
   ub |-> r.ub]

Call_string_to_int128 ==
  /\ argT = int128_t /\ argExp = 0 /\ argBase = ZZero
  /\ \E str \in Texts, base \in TextBases,
        max_val \in numeric_limits_max(int128_t) :
       Call("string_to_int128",
            Parsed(str, base, string_to_int128(str, base, max_val)))

Call_v2_int_power_checked ==
  /\ argT \in V2Types
  /\ \E safe \in int_power_safe(argT, argBase, argExp) :
       CallWithExpOfT("v2_int_power_checked",
                      v2_int_power_checked(argT, argBase, argExp, safe))

\* ---------------------------------------------------------------------------
\* Combinations (combinatorics_impl.hpp): BigInt is boost's cpp_int, an
\* integer of any size

MaxN == 12

\* The step with the division taken before the product
CombStep_DivideFirst(result, i, big_n) ==
  [val |-> (result \div (i + 1)) * (big_n - i),
   rem |-> result % (i + 1)]

\* result = result * (big_n - i) / (i + 1): the product is taken first
CombStep(result, i, big_n) ==
  [val |-> (result * (big_n - i)) \div (i + 1),
   rem |-> (result * (big_n - i)) % (i + 1)]

\* for (BigInt i = 0; i < big_k; ++i): the value, and whether every division
\* so far left no remainder
RECURSIVE CombLoop(_, _, _, _, _)
CombLoop(result, exact, i, big_n, big_k) ==
  IF i < big_k
  THEN CombLoop(CombStep(result, i, big_n).val,
                exact /\ CombStep(result, i, big_n).rem = 0,
                i + 1, big_n, big_k)
  ELSE [val |-> result, exact |-> exact, steps |-> i]

combinations(n, k) ==
  IF k < 0 \/ n < 0 \/ k > n THEN [val |-> 0, exact |-> TRUE, steps |-> 0]
  ELSE IF k = 0 \/ k = n THEN [val |-> 1, exact |-> TRUE, steps |-> 0]
  ELSE CombLoop(1, TRUE, 0, n, IF k > n - k THEN n - k ELSE k)

Call_combinations ==
  /\ argT = int32_t /\ argExp = 0 /\ argBase = ZZero
  /\ \E n \in -1..MaxN, k \in -1..MaxN :
       Call("combinations",
            [n |-> n, k |-> k, val |-> combinations(n, k).val,
             exact |-> combinations(n, k).exact,
             steps |-> combinations(n, k).steps])

\* The large-type power of 2 called directly, with the decomposition it made
\* of an exponent it does not shift
Decomposed(T, exp, r) ==
  [val |-> r.val, ovf |-> r.ovf, ub |-> r.ub, iters |-> r.iters,
   mults |-> r.mults,
   decomposed |-> exp >= 64,
   chunk |-> Decomposition(T, exp).chunk,
   quotient |-> Decomposition(T, exp).quotient,
   remainder |-> Decomposition(T, exp).remainder]

Call_int_power_2_large_optimized ==
  /\ argT.size > uint32_t.size
  /\ argBase = ZTwo
  /\ argExp >= 0
  /\ Call("int_power_2_large_optimized",
          Decomposed(argT, argExp, int_power_2_large_optimized(argT, argExp)))

\* ---------------------------------------------------------------------------
\* The range predicates of the table headers

\* lookup_tables::get_max_power_of_2_exponent<T>(): a static_assert rejects
\* every type but the four of 8 and 16 bits
get_max_power_of_2_exponent(T) ==
  IF T = int8_t THEN [ok |-> TRUE, max |-> 6]
  ELSE IF T = uint8_t THEN [ok |-> TRUE, max |-> 7]
  ELSE IF T = int16_t THEN [ok |-> TRUE, max |-> 14]
  ELSE IF T = uint16_t THEN [ok |-> TRUE, max |-> 15]
  ELSE [ok |-> FALSE, max |-> -1]

\* simplified_power_tables_cpp14.hpp: one explicit specialization a type
cpp14_get_max_power_of_2_exponent(T) ==
  IF T = int8_t THEN 6
  ELSE IF T = uint8_t THEN 7
  ELSE IF T = int16_t THEN 14
  ELSE IF T = uint16_t THEN 15
  ELSE IF T = int32_t THEN 30
  ELSE 31

\* The test with the maximum itself taken for out of range
cpp14_is_valid_power_of_2_exponent_Strict(T, exponent) ==
  exponent >= 0 /\ exponent < cpp14_get_max_power_of_2_exponent(T)

cpp14_is_valid_power_of_2_exponent(T, exponent) ==
  exponent >= 0 /\ exponent <= cpp14_get_max_power_of_2_exponent(T)

Call_is_valid_power_of_2_exponent ==
  TableCall("is_valid_power_of_2_exponent",
            [valid |-> is_valid_power_of_2_exponent(argT, argExp),
             has_max |-> get_max_power_of_2_exponent(argT).ok,
             max |-> get_max_power_of_2_exponent(argT).max,
             size |-> Len(tables.lookup[argT.name])])

Call_cpp14_is_valid_power_of_2_exponent ==
  TableCall("cpp14_is_valid_power_of_2_exponent",
            [valid |-> cpp14_is_valid_power_of_2_exponent(argT, argExp),
             has_max |-> TRUE,
             max |-> cpp14_get_max_power_of_2_exponent(argT),
             size |-> Len(tables.cpp14[argT.name])])

\* ---------------------------------------------------------------------------
\* The square-and-multiply loops taken one pass at a time: ret holds the loop
\* variables while pc = "loop".

\* The statements before the while: result = 1, current_base, current_exp
EnterLoop(name, entry) ==
  /\ pc = "ready"
  /\ pc' = "loop"
  /\ fn' = name
  /\ ret' = entry
  /\ UNCHANGED <<tables, argT, argBase, argExp>>

Enter_int_power_basic ==
  /\ argExp # 0 /\ argExp # 1 /\ argBase # ZZero /\ argBase # ZOne
  /\ EnterLoop("int_power_basic", LoopEntry(argBase, argExp, FALSE, FALSE))

Enter_int_power_unsigned_impl ==
  /\ ~is_signed_extended_v(argT)
  /\ argExp # 0 /\ argExp # 1 /\ argBase # ZZero /\ argBase # ZOne
  /\ EnterLoop("int_power_unsigned_impl",
               LoopEntry(argBase, argExp, FALSE, FALSE))

\* The loop of int_power_signed_impl on abs_base = -base, for a negative base
Enter_int_power_signed_impl ==
  /\ is_signed_extended_v(argT)
  /\ argExp # 0 /\ ZLt(argBase, ZMinusOne)
  /\ EnterLoop("int_power_signed_impl",
               LoopEntry(CNeg(argT, argBase).val, argExp,
                         CNeg(argT, argBase).ovf, CNeg(argT, argBase).ub))

\* while (current_exp > 0): one pass through the body
LoopIteration ==
  /\ pc = "loop"
  /\ ret.current_exp > 0
  /\ ret' = LoopBody(argT, ret)
  /\ UNCHANGED <<tables, pc, fn, argT, argBase, argExp>>

\* The loop is left and the function returns
LoopExit ==
  /\ pc = "loop"
  /\ ~(ret.current_exp > 0)
  /\ pc' = "done"
  /\ ret' = IF fn = "int_power_signed_impl"
            THEN ReturnSigned(argT, ret, LowBit(argExp))
            ELSE ReturnResult(ret)
  /\ UNCHANGED <<tables, fn, argT, argBase, argExp>>

\* ---------------------------------------------------------------------------
\* small_type_power_optimizations.hpp: the functions of the 8 and 16 bit
\* types.  A result records the table read the call made, if any.

\* What a read outside a table can give
Garbage(T) == {Wrap(T, ZZero), TMin(T), TMax(T)}

\* power_of_2_<T>[i]: undefined behaviour outside the table
TableRead(T, i, garbage) ==
  [val |-> IF i >= 0 /\ i < Len(tables.lookup[T.name])
           THEN tables.lookup[T.name][i + 1] ELSE garbage,
   ovf |-> FALSE,
   ub |-> ~(i >= 0 /\ i < Len(tables.lookup[T.name])),
   indexed |-> TRUE, index |-> i, size |-> Len(tables.lookup[T.name])]

\* A value returned without a table read
Unindexed(r) ==
  [val |-> r.val, ovf |-> r.ovf, ub |-> r.ub,
   indexed |-> FALSE, index |-> 0, size |-> 0]

int_power_2_int8(exp, garbage) ==
  IF exp = 0 THEN Unindexed(Early(ZOne))
  ELSE IF exp < 0 \/ exp > 6 THEN Unindexed(Early(ZZero))
  ELSE TableRead(int8_t, exp, garbage)

int_power_int8(base, exp, garbage) ==
  IF exp = 0 THEN Unindexed(Early(ZOne))
  ELSE IF exp = 1 THEN Unindexed(Early(base))
  ELSE IF base = ZZero THEN Unindexed(Early(ZZero))
  ELSE IF base = ZOne THEN Unindexed(Early(ZOne))
  ELSE IF base = ZMinusOne
       THEN Unindexed(Early(IF exp % 2 = 0 THEN ZOne ELSE ZMinusOne))
  ELSE IF base = ZTwo THEN int_power_2_int8(exp, garbage)
  ELSE Unindexed(int_power_signed_impl(int8_t, base, exp))

int_power_2_uint8(exp, garbage) ==
  IF exp = 0 THEN Unindexed(Early(ZOne))
  ELSE IF exp < 0 \/ exp > 7 THEN Unindexed(Early(ZZero))
  ELSE TableRead(uint8_t, exp, garbage)

int_power_uint8(base, exp, garbage) ==
  IF exp = 0 THEN Unindexed(Early(ZOne))
  ELSE IF exp = 1 THEN Unindexed(Early(base))
  ELSE IF base = ZZero THEN Unindexed(Early(ZZero))
  ELSE IF base = ZOne THEN Unindexed(Early(ZOne))
  ELSE IF base = ZTwo THEN int_power_2_uint8(exp, garbage)
  ELSE Unindexed(int_power_unsigned_impl(uint8_t, base, exp))

int_power_2_int16(exp, garbage) ==
  IF exp = 0 THEN Unindexed(Early(ZOne))
  ELSE IF exp < 0 \/ exp > 14 THEN Unindexed(Early(ZZero))
  ELSE TableRead(int16_t, exp, garbage)

\* if (is_power_of_2(base)) { base_exp = find_power_of_2_exponent(base);
\*   if (base_exp > 0) { total_exp = base_exp * exp;
\*     if (total_exp <= limit) return power_of_2_<T>[total_exp]; } }
RewritesToTable(T, base, exp, limit) ==
  /\ is_power_of_2(T, base)
  /\ find_power_of_2_exponent(T, base) > 0
  /\ find_power_of_2_exponent(T, base) * exp <= limit

int_power_int16(base, exp, garbage) ==
  IF exp = 0 THEN Unindexed(Early(ZOne))
  ELSE IF exp = 1 THEN Unindexed(Early(base))
  ELSE IF base = ZZero THEN Unindexed(Early(ZZero))
  ELSE IF base = ZOne THEN Unindexed(Early(ZOne))
  ELSE IF base = ZMinusOne
       THEN Unindexed(Early(IF exp % 2 = 0 THEN ZOne ELSE ZMinusOne))
  ELSE IF base = ZTwo THEN int_power_2_int16(exp, garbage)
  ELSE IF RewritesToTable(int16_t, base, exp, 14)
       THEN TableRead(int16_t, find_power_of_2_exponent(int16_t, base) * exp,
                      garbage)
  ELSE Unindexed(int_power_signed_impl(int16_t, base, exp))

int_power_2_uint16(exp, garbage) ==
  IF exp = 0 THEN Unindexed(Early(ZOne))
  ELSE IF exp < 0 \/ exp > 15 THEN Unindexed(Early(ZZero))
  ELSE TableRead(uint16_t, exp, garbage)

int_power_uint16(base, exp, garbage) ==
  IF exp = 0 THEN Unindexed(Early(ZOne))
  ELSE IF exp = 1 THEN Unindexed(Early(base))
  ELSE IF base = ZZero THEN Unindexed(Early(ZZero))
  ELSE IF base = ZOne THEN Unindexed(Early(ZOne))
  ELSE IF base = ZTwo THEN int_power_2_uint16(exp, garbage)
  ELSE IF RewritesToTable(uint16_t, base, exp, 15)
       THEN TableRead(uint16_t,
                      find_power_of_2_exponent(uint16_t, base) * exp, garbage)
  ELSE Unindexed(int_power_unsigned_impl(uint16_t, base, exp))

int_power_small_type(T, base, exp, garbage) ==
  IF T = int8_t THEN int_power_int8(base, exp, garbage)
  ELSE IF T = uint8_t THEN int_power_uint8(base, exp, garbage)
  ELSE IF T = int16_t THEN int_power_int16(base, exp, garbage)
  ELSE int_power_uint16(base, exp, garbage)

\* int_power_2_int8, int_power_2_uint8, int_power_2_int16, int_power_2_uint16
int_power_2_small(T, exp, garbage) ==
  IF T = int8_t THEN int_power_2_int8(exp, garbage)
  ELSE IF T = uint8_t THEN int_power_2_uint8(exp, garbage)
  ELSE IF T = int16_t THEN int_power_2_int16(exp, garbage)
  ELSE int_power_2_uint16(exp, garbage)

Call_int_power_small_type ==
  /\ argT \in SmallTypes
  /\ \E garbage \in Garbage(argT) :
       Call("int_power_small_type",
            int_power_small_type(argT, argBase, argExp, garbage))

Call_int_power_2_small ==
  /\ argT \in SmallTypes
  /\ argBase = ZTwo
  /\ \E garbage \in Garbage(argT) :
       Call("int_power_2_small", int_power_2_small(argT, argExp, garbage))

Next ==
  \/ Call_int_power_basic
  \/ Call_int_power
  \/ Call_int_power_dispatch
  \/ Call_int_power_smart
  \/ Call_int_power_2
  \/ Call_get_power_of_2
  \/ Call_get_power_of_2_from_table
  \/ Call_cpp14_get_power_of_2
  \/ Call_cpp14_get_power_of_2_from_table
  \/ Call_get_power_of_2_safe
  \/ Call_error_handling_get_power_of_2_int8_safe
  \/ Call_int_power_safe
  \/ Call_int_power_checked
  \/ Call_int_power_safe_pair
  \/ Call_v2_int_power_checked
  \/ Call_number_calc_int_power_safe
  \/ Call_int128_to_string
  \/ Call_string_to_int128
  \/ Call_int_power_new
  \/ Call_v2_int_power_new
  \/ Call_is_power_of_2
  \/ Call_find_power_of_2_exponent
  \/ Call_combinations
  \/ Call_int_power_2_large_optimized
  \/ Call_is_valid_power_of_2_exponent
  \/ Call_cpp14_is_valid_power_of_2_exponent
  \/ Call_int_power_small_type
  \/ Call_int_power_2_small

Spec == Init /\ [][Next]_vars

\* The loops one pass at a time, from the same calls
LoopNext ==
  \/ Enter_int_power_basic
  \/ Enter_int_power_unsigned_impl
  \/ Enter_int_power_signed_impl
  \/ LoopIteration
  \/ LoopExit

LoopSpec == Init /\ [][LoopNext]_vars

Done(name) == pc = "done" /\ fn = name

\* ========================================================================
\* Properties
\* ========================================================================

IsEven(e) == e % 2 = 0

\* C1: whenever the exact value base^exp (exp >= 0) fits T, int_power_basic
\* and its alias int_power return exactly that value, the result of exp-fold
\* multiplication starting from 1.
C1_BasicIsExactPower ==
  (/\ pc = "done"
   /\ fn \in {"int_power_basic", "int_power"}
   /\ argExp >= 0)
  => LET p == ExactPower(argT, argBase, argExp)
     IN p.fits => ret.val = p.val

\* int_power_basic ran its loop on a negative base of a 128 bit type and an
\* odd exponent whose power fits.
C1_Witness ==
  /\ Done("int_power_basic")
  /\ argT = int128_t
  /\ argBase = ZInt(-3)
  /\ argExp = 7
  /\ ret.iters = 3
  /\ ret.val = ZInt(-2187)

\* C2: for every type and every exponent in 0 .. max_exponent(T),
\* int_power_2<T>(e), int_power_dispatch<T>(2, e) and T(1) << e are equal.
C2_PowerOfTwoAgree ==
  (/\ Done("int_power_2")
   /\ argExp >= 0
   /\ argExp <= max_exponent(argT))
  => /\ ret.val = int_power_dispatch(argT, ZTwo, argExp).val
     /\ ret.val = CShl(argT, argExp).val

\* int_power_2 was called at the largest exponent of unsigned __int128.
C2_Witness ==
  /\ Done("int_power_2")
  /\ argT = uint128_t
  /\ argExp = 127
  /\ ret.val = ZPow2(127)

\* C3: in int_power_basic, int_power_dispatch and int_power_smart alike,
\* exponent 0 gives 1 for every base (so 0^0 = 1), exponent 1 gives the base,
\* base 0 gives 0 for every exponent >= 1 and base 1 gives 1 for every
\* exponent >= 0.
C3_TrivialCases ==
  (/\ pc = "done"
   /\ fn \in {"int_power_basic", "int_power_dispatch", "int_power_smart"})
  => /\ argExp = 0 => ret.val = ZOne
     /\ argExp = 1 => ret.val = argBase
     /\ (argBase = ZZero /\ argExp >= 1) => ret.val = ZZero
     /\ (argBase = ZOne /\ argExp >= 0) => ret.val = ZOne

\* int_power_dispatch was called with a negative base and exponent 1, the
\* one trivial case that goes through the loop.
C3_Witness ==
  /\ Done("int_power_dispatch")
  /\ argT = int32_t
  /\ argBase = ZInt(-3)
  /\ argExp = 1
  /\ ret.iters = 1
  /\ ret.val = ZInt(-3)

\* C4: for every base and every exponent e >= 1,
\* int_power_basic(base, e) = int_power_basic(base, e - 1) * base in T's own
\* multiplication modulo 2^w.
C4_Recurrence ==
  (Done("int_power_basic") /\ argExp >= 1)
  => ret.val =
       CMul(argT, int_power_basic(argT, argBase, argExp - 1).val, argBase).val

\* int_power_basic ran its loop on a power that does not fit the type.
C4_Witness ==
  /\ Done("int_power_basic")
  /\ argT = uint32_t
  /\ argBase = TMax(uint32_t)
  /\ argExp = 7
  /\ ~ExactPower(argT, argBase, argExp).fits
  /\ ret.iters = 3

\* C5: for every signed type and every exponent e >= 0,
\* int_power_dispatch(-1, e) is 1 for even e and -1 for odd e, and the
\* square-and-multiply loop is not entered.
C5_MinusOne ==
  (/\ Done("int_power_dispatch")
   /\ argT.signed
   /\ argBase = ZMinusOne
   /\ argExp >= 0)
  => /\ ret.val = (IF IsEven(argExp) THEN ZOne ELSE ZMinusOne)
     /\ ret.iters = 0
     /\ ret.mults = 0

\* int_power_dispatch<__int128>(-1, e) was called with an odd exponent.
C5_Witness ==
  /\ Done("int_power_dispatch")
  /\ argT = int128_t
  /\ argBase = ZMinusOne
  /\ argExp = 7
  /\ ret.val = ZMinusOne

\* C6: for every signed type, every negative base b other than -1 and every
\* exponent e >= 0 such that |b|^e fits T, int_power_dispatch returns |b|^e
\* for even e and -(|b|^e) for odd e, which is the exact b^e.
C6_NegativeBase ==
  (/\ Done("int_power_dispatch")
   /\ argT.signed
   /\ ZLt(argBase, ZZero)
   /\ argBase # ZMinusOne
   /\ argExp >= 0)
  => LET p == ExactPower(argT, ZAbs(argBase), argExp)
         q == ExactPower(argT, argBase, argExp)
     IN p.fits => /\ ret.val = (IF IsEven(argExp) THEN p.val ELSE ZNeg(p.val))
                  /\ q.fits
                  /\ ret.val = q.val

\* The negative branch ran its loop and re-applied the sign.
C6_Witness ==
  /\ Done("int_power_dispatch")
  /\ argT = int64_t
  /\ argBase = ZInt(-4)
  /\ argExp = 5
  /\ ret.iters = 3
  /\ ret.val = ZInt(-1024)

\* C7: for every type, base and exponent e >= 0 such that base^e fits T,
\* int_power_smart(base, e) equals int_power_dispatch(base, e) and the exact
\* base^e, the 128 bit types with e > 32 included.
C7_SmartIsExactPower ==
  (Done("int_power_smart") /\ argExp >= 0)
  => LET p == ExactPower(argT, argBase, argExp)
     IN p.fits
        => /\ ret.val = p.val
           /\ ret.val = int_power_dispatch(argT, argBase, argExp).val

\* C8: for a base 2^k with k >= 1 other than 2 and an exponent e >= 2,
\* int_power_smart(base, e) is int_power_2<T>(k * e), which is base^e
\* whenever that fits T; for a base that is not a power of two
\* int_power_smart gives what the sign dispatch gives.
C8_SmartPowerOfTwoRewrite ==
  (Done("int_power_smart") /\ argExp >= 2)
  => IF is_power_of_2(argT, argBase)
     THEN (argBase # ZOne /\ argBase # ZTwo)
          => LET k == find_power_of_2_exponent(argT, argBase)
                 p == ExactPower(argT, argBase, argExp)
             IN /\ k >= 1
                /\ argBase = ZPow2(k)
                /\ ret.val = int_power_2(argT, k * argExp).val
                /\ p.fits => ret.val = p.val
     ELSE ret.val = int_power_dispatch(argT, argBase, argExp).val

\* The entries a table of T must have: 2^0 .. 2^k_max(T), all within T, with
\* 2^(k_max(T) + 1) outside T.
TableOk(T, table) ==
  LET max == TMax(T)
  IN /\ Len(table) = max_exponent(T) + 1
     /\ \A i \in 0..(Len(table) - 1) :
           /\ table[i + 1] = ZPow2(i)
           /\ ZLe(table[i + 1], max)
     /\ ~InRange(T, ZPow2(max_exponent(T) + 1))

TableInv ==
  \A T \in TableTypes :
    /\ TableOk(T, tables.lookup[T.name])
    /\ TableOk(T, tables.cpp14[T.name])

\* C9: each of the six tables, in both headers, has exactly k_max(T) + 1
\* entries, entry i is 2^i and is at most max(T), and 2^(k_max(T) + 1) does
\* not fit T; no step of the program changes a table.
C9_TableInvariant == []TableInv /\ [][tables' = tables]_vars

\* The last entry of the largest table was read by its accessor.
C9_Witness ==
  /\ Done("get_power_of_2")
  /\ argT = uint32_t
  /\ argExp = 31
  /\ Len(tables.lookup.uint32_t) = 32
  /\ ret.ok
  /\ ret.val = tables.lookup.uint32_t[32]

AccessorNames ==
  {"get_power_of_2", "get_power_of_2_from_table",
   "cpp14_get_power_of_2", "cpp14_get_power_of_2_from_table"}

AccessorAgrees ==
  /\ ret.ok
  /\ ret.val = ZPow2(argExp)
  /\ ret.val = CShl(argT, argExp).val
  /\ ret.val = traditional_power_of_2(argT, argExp)
  /\ ret.val = manual_power_of_2(argT, argExp)

\* C10 as stated: for each of the six table types and every exponent in
\* 0 .. max_exponent(T), the accessor named after T and the generic accessor
\* get_power_of_2_from_table<T> return 1 << e and agree with the bit shift
\* and with repeated doubling.
C10_AccessorsAllSixTypes ==
  (/\ pc = "done"
   /\ fn \in AccessorNames
   /\ argExp >= 0
   /\ argExp <= max_exponent(argT))
  => AccessorAgrees

\* C10 amended: the same for the accessors named after T in both headers, for
\* the generic accessor of simplified_power_tables_cpp14.hpp at all six
\* types and for the generic accessor of power_of_2_lookup_tables.hpp at the
\* 8 and 16 bit types; at int32_t and uint32_t the latter is rejected by its
\* static_assert and yields no value.
C10_AccessorsWhereDefined ==
  (/\ pc = "done"
   /\ fn \in AccessorNames
   /\ argExp >= 0
   /\ argExp <= max_exponent(argT))
  => IF fn = "get_power_of_2_from_table" /\ argT \notin SmallTypes
     THEN ~ret.ok /\ ret.why = "static_assert"
     ELSE AccessorAgrees

\* The generic accessor of power_of_2_lookup_tables.hpp returned the last
\* entry of the uint16_t table.
C10_Witness ==
  /\ Done("get_power_of_2_from_table")
  /\ argT = uint16_t
  /\ argExp = 15
  /\ ret.ok
  /\ ret.val = ZNat(32768)

\* C11: for an exponent outside [0, max_exponent(T)] every accessor
\* get_power_of_2_<T> signals failure (it throws or returns an empty
\* optional) and returns no ordinary value of T.
C11_OutOfRangeSignalsFailure ==
  (/\ pc = "done"
   /\ fn \in {"get_power_of_2", "get_power_of_2_safe",
              "error_handling_get_power_of_2_int8_safe",
              "cpp14_get_power_of_2"}
   /\ (argExp < 0 \/ argExp > max_exponent(argT)))
  => ~ret.ok

\* C12: the std::optional accessor holds a value exactly when the throwing
\* accessor of the same type does not throw, both then yield 2^e, and the
\* copy of error_handling.hpp returns what the copy of the lookup header
\* returns.
C12_SafeMatchesThrowing ==
  /\ Done("get_power_of_2_safe")
     => /\ ret.ok <=> get_power_of_2_(argT, argExp).ok
        /\ ret.ok => /\ ret.val = get_power_of_2_(argT, argExp).val
                     /\ ret.val = ZPow2(argExp)
  /\ Done("error_handling_get_power_of_2_int8_safe")
     => ret = get_power_of_2_int8_safe(argExp)

\* Both copies were called with the last valid exponent of int8_t.
C12_Witness ==
  /\ Done("error_handling_get_power_of_2_int8_safe")
  /\ argExp = 6
  /\ ret.ok
  /\ ret.val = ZNat(64)
  /\ get_power_of_2_int8(argExp).ok

\* C13: for the 8 and 16 bit types int_power_2<T>(e) is the table entry 2^e,
\* read without running the loop, when 0 <= e <= max_exponent(T); for
\* e > max_exponent(T) it is the value of int_power_dispatch(T{2}, e), which
\* is 2^e reduced modulo 2^w: min(T) for signed T and e = w - 1, and 0 for
\* e >= w.
C13_NarrowPowerOfTwo ==
  (Done("int_power_2") /\ argT \in SmallTypes /\ argExp >= 0)
  => IF argExp <= max_exponent(argT)
     THEN /\ ret.val = tables.lookup[argT.name][argExp + 1]
          /\ ret.val = ZPow2(argExp)
          /\ ret.iters = 0
          /\ ~ret.ovf
     ELSE /\ ret.val = int_power_dispatch(argT, ZTwo, argExp).val
          /\ ret.val = Wrap(argT, ZPow2(argExp))
          /\ (argT.signed /\ argExp = Bits(argT) - 1) => ret.val = TMin(argT)
          /\ argExp >= Bits(argT) => ret.val = ZZero

\* int_power_2<int8_t>(7) wrapped to the minimum of int8_t.
C13_Witness ==
  /\ Done("int_power_2")
  /\ argT = int8_t
  /\ argExp = 7
  /\ ret.val = ZInt(-128)
  /\ ret.ovf
  /\ ret.iters = 3

C14_WitnessThrown ==
  /\ Done("v2_int_power_checked") /\ argT = int8_t
  /\ argBase = ZNat(16) /\ argExp = 2
  /\ ~ret.ok /\ int_power_safe(argT, argBase, argExp) = {FALSE}

\* C15: the safety check is conservative: for exp >= 0, when
\* int_power_safe(base, exp) returns true the exact value of base^exp is
\* representable in T, and when int_power_checked(base, exp) returns, the
\* value returned is that exact power and no partial product has wrapped.
C15_SafeIsConservative ==
  /\ (Done("int_power_safe") /\ argExp >= 0 /\ ret.val) =>
       ExactPower(argT, argBase, argExp).fits
  /\ (pc = "done" /\ fn \in {"int_power_checked", "v2_int_power_checked"}
        /\ argExp >= 0 /\ ret.ok) =>
       /\ ExactPower(argT, argBase, argExp).fits
       /\ ret.val = ExactPower(argT, argBase, argExp).val

\* C17: int_power_safe_pair always returns a pair; its flag is the value of
\* int_power_safe(base, exp); with a true flag the value is
\* int_power_basic(base, exp), with a false flag the value is 0.
C17_SafePairFollowsSafe ==
  Done("int_power_safe_pair") =>
    /\ ret.second \in int_power_safe(argT, argBase, argExp)
    /\ ret.second => ret.first = int_power_basic(argT, argBase, argExp).val
    /\ ~ret.second => ret.first = ZZero

\* 127 * 127 exceeds the maximum of int8_t: the pair is (0, false) although
\* 127^1 fits.
C17_Witness ==
  /\ Done("int_power_safe_pair") /\ argT = int8_t
  /\ argBase = ZNat(127) /\ argExp = 1
  /\ ret = [first |-> ZZero, second |-> FALSE]
  /\ int_power_basic(argT, argBase, argExp).val = ZNat(127)

\* C16: the step-by-step predicate of number_calc.hpp answers exactly: for
\* exp >= 0 and any base, number_calc_impl::int_power_safe(base, exp) is
\* true if and only if the exact value of base^exp is representable in T.
C16_StepwiseSafeIsExact ==
  (Done("number_calc_int_power_safe") /\ argExp >= 0) =>
    (ret.val <=> ExactPower(argT, argBase, argExp).fits)

\* For a base above 1 the predicate is exact: the products it tests are
\* those int_power makes, and each is a factor of the result.
C16_ExactForPositiveBase ==
  (Done("number_calc_int_power_safe") /\ argExp >= 0
     /\ ZLt(ZOne, argBase) /\ ~EqualsMinusOne(argT, argBase)) =>
    (ret.val <=> ExactPower(argT, argBase, argExp).fits)

\* b > 0 and b = 2^k for some k >= 0, the powers being computed exactly
IsPowerOfTwo(T, b) == \E k \in 0..(Bits(T) - 1) : b = ZPow2(k)

\* C18: is_power_of_2(b) is true exactly when b > 0 and b = 2^k for some
\* k >= 0; find_power_of_2_exponent(b) returns that k for a power of two and
\* -1 otherwise; and int_power_2<T>(find_power_of_2_exponent(b)) = b for
\* every power of two b.
C18_PowerOfTwoDetection ==
  /\ Done("is_power_of_2") => (ret.val <=> IsPowerOfTwo(argT, argBase))
  /\ Done("find_power_of_2_exponent") =>
       IF IsPowerOfTwo(argT, argBase)
       THEN /\ ret.val >= 0
            /\ argBase = ZPow2(ret.val)
            /\ int_power_2(argT, ret.val).val = argBase
       ELSE ret.val = -1

\* 2^62 in int64_t: the exponent found is 62 and 1 << 62 gives the base back.
C18_Witness ==
  /\ Done("find_power_of_2_exponent") /\ argT = int64_t
  /\ argBase = ZPow2(62) /\ ret.val = 62
  /\ int_power_2(argT, ret.val).val = argBase

\* C19: for every type of at most 64 bits, every base and every exponent
\* e >= 0, int_power_new(base, e), int_power_dispatch(base, e) and
\* int_power(base, e) return the same value, and for base 2 that value is
\* int_power_2<T>(e); this includes the inputs whose power does not fit T,
\* where every path gives the same residue modulo 2^w.  It holds for the
\* modular headers and for number_calc_v2.hpp.
C19_NewAgreesWithCore ==
  /\ (Done("int_power_new") /\ argT \in V2Types /\ argExp >= 0) =>
       /\ ret.val = int_power_dispatch(argT, argBase, argExp).val
       /\ ret.val = int_power(argT, argBase, argExp).val
       /\ argBase = ZTwo => ret.val = int_power_2(argT, argExp).val
  /\ (Done("v2_int_power_new") /\ argExp >= 0) =>
       /\ ret.val = v2_int_power_dispatch(argT, argBase, argExp).val
       /\ ret.val = int_power(argT, argBase, argExp).val
       /\ argBase = ZTwo => ret.val = v2_int_power_2(argT, argExp).val

\* 2^33 in int32_t: int_power_2 leaves the shift for the dispatch and every
\* path returns 0.
C19_Witness ==
  /\ Done("int_power_new") /\ argT = int32_t
  /\ argBase = ZTwo /\ argExp = 33
  /\ ret.val = ZZero /\ ret.ovf
  /\ ~ExactPower(argT, argBase, argExp).fits
  /\ int_power(argT, argBase, argExp).val = ZZero

\* (-3)^7 = -2187 in int8_t: the sign dispatch and the plain loop wrap to
\* the same value.
C19_WitnessNegative ==
  /\ Done("v2_int_power_new") /\ argT = int8_t
  /\ argBase = ZInt(-3) /\ argExp = 7
  /\ ret.val = ZInt(117) /\ ret.ovf

\* A decimal text with an optional '-', at least one digit and no leading
\* zero, "0" being the text of zero
Digits(s) == IF s # <<>> /\ s[1] = "-" THEN Tail(s) ELSE s

Canonical(s) ==
  /\ Digits(s) # <<>>
  /\ \A i \in 1..Len(Digits(s)) : IsIn(DigitChars, Digits(s)[i])
  /\ Digits(s)[1] = "0" => s = <<"0">>

\* The exact value of the digits i..j of d, nine at a time from the right
RECURSIVE DecOf(_, _, _)
DecOf(d, i, j) ==
  IF j - i < 9
  THEN ZNat(Sum(LAMBDA k : (IndexIn(DigitChars, d[k]) - 1) * 10^(j - k), i, j))
  ELSE ZAdd(ZMul(DecOf(d, i, j - 9), ZNat(10^9)), DecOf(d, j - 8, j))

DecValue(s) ==
  IF s[1] = "-" THEN ZNeg(DecOf(s, 2, Len(s))) ELSE DecOf(s, 1, Len(s))

RoundTrip(r, value) == r.ok /\ r.val = value

\* C20: for every __int128 value v, the minimum and the maximum included,
\* string_to_int128(int128_to_string(v)) = v; and for every canonical decimal
\* text s of a value in range, int128_to_string(string_to_int128(s)) = s.
C20_DecimalRoundTrip ==
  /\ Done("int128_to_string") =>
       \A max_val \in numeric_limits_max(int128_t) :
         RoundTrip(string_to_int128(ret.str, 10, max_val), argBase)
  /\ (/\ Done("string_to_int128") /\ ret.base = 10
      /\ Canonical(ret.str)
      /\ InRange(int128_t, DecValue(ret.str))) =>
       /\ ret.ok
       /\ int128_to_string(ret.val).str = ret.str

\* Where numeric_limits<__int128> is specialized both round trips hold for
\* every value and text other than the minimum.
C20_RoundTripAboveMinimum ==
  /\ (Done("int128_to_string") /\ argBase # TMin(int128_t)) =>
       RoundTrip(string_to_int128(ret.str, 10, TMax(int128_t)), argBase)
  /\ (/\ Done("string_to_int128") /\ ret.base = 10
      /\ Canonical(ret.str)
      /\ InRange(int128_t, DecValue(ret.str))
      /\ ret.str # MinText) =>
       \/ /\ ret.ok
          /\ ret.val = DecValue(ret.str)
          /\ int128_to_string(ret.val).str = ret.str
       \/ /\ ~ret.ok
          /\ ~string_to_int128(ret.str, 10, ZZero).ok
          /\ string_to_int128(ret.str, 10, TMax(int128_t)).ok

\* The digits of a text after its optional sign
Unsigned(s) ==
  IF s # <<>> /\ (s[1] = "-" \/ s[1] = "+") THEN Tail(s) ELSE s

\* A sign at most, then one digit or more, each below the base
WellFormed(s, base) ==
  /\ base >= 2 /\ base <= 36
  /\ Unsigned(s) # <<>>
  /\ \A i \in 1..Len(Unsigned(s)) :
       DigitOf(Unsigned(s)[i]) >= 0 /\ DigitOf(Unsigned(s)[i]) < base

\* The exact value of the digits i..j of d in the base, five at a time from
\* the right
RECURSIVE DigitsValue(_, _, _, _)
DigitsValue(d, i, j, base) ==
  IF j - i < 5
  THEN ZNat(Sum(LAMBDA k : DigitOf(d[k]) * base^(j - k), i, j))
  ELSE ZAdd(ZMul(DigitsValue(d, i, j - 5, base), ZNat(base^5)),
            DigitsValue(d, j - 4, j, base))

TextValue(s, base) ==
  IF s[1] = "-"
  THEN ZNeg(DigitsValue(Unsigned(s), 1, Len(Unsigned(s)), base))
  ELSE DigitsValue(Unsigned(s), 1, Len(Unsigned(s)), base)

\* C21: for every base from 2 to 36 and every well-formed text whose value
\* does not fit __int128, string_to_int128 throws std::out_of_range and
\* returns no value, a value above the maximum in its last digit only
\* included.
C21_OverflowIsThrown ==
  (/\ Done("string_to_int128")
   /\ WellFormed(ret.str, ret.base)
   /\ ~InRange(int128_t, TextValue(ret.str, ret.base))) =>
    (~ret.ok /\ ret.why = "out_of_range")

\* A text whose value is out of range before its last digit is read is
\* rejected.
C21_ThrownBeforeLastDigit ==
  (/\ Done("string_to_int128")
   /\ WellFormed(ret.str, ret.base)
   /\ ~InRange(int128_t,
               DigitsValue(Unsigned(ret.str), 1, Len(Unsigned(ret.str)) - 1,
                           ret.base))) =>
    (~ret.ok /\ ret.why = "out_of_range")

\* The binomial coefficient by Pascal's rule
RECURSIVE Binomial(_, _)
Binomial(n, k) ==
  IF k < 0 \/ k > n THEN 0
  ELSE IF k = 0 \/ k = n THEN 1
  ELSE Binomial(n - 1, k - 1) + Binomial(n - 1, k)

\* C22: combinations(n, k) returns 0 when n < 0, k < 0 or k > n, and the
\* binomial coefficient of n and k otherwise; it is symmetric in k and n - k,
\* and the division at every step of its loop leaves no remainder.
C22_CombinationsIsBinomial ==
  Done("combinations") =>
    /\ (ret.n < 0 \/ ret.k < 0 \/ ret.k > ret.n) => ret.val = 0
    /\ (ret.n >= 0 /\ ret.k >= 0 /\ ret.k <= ret.n) =>
         /\ ret.val = Binomial(ret.n, ret.k)
         /\ ret.val = combinations(ret.n, ret.n - ret.k).val
    /\ ret.exact

C22_Witness ==
  /\ Done("combinations")
  /\ ret.n = MaxN /\ ret.k = 5 /\ ret.steps = 5 /\ ret.val = Binomial(MaxN, 5)

\* floor(log2(n)) + 1 for n >= 1: the number of binary digits of n
RECURSIVE BinaryDigits(_)
BinaryDigits(n) == IF n <= 0 THEN 0 ELSE 1 + BinaryDigits(n \div 2)

C23_WitnessSigned ==
  /\ Done("int_power_2_large_optimized")
  /\ argT = int128_t /\ argExp = 100
  /\ ret.quotient = 3 /\ ret.remainder = 10

\* C24: for every type wider than 32 bits and every exponent e >= 0,
\* int_power_2_large_optimized<T>(e) is 2^e reduced modulo 2^bitwidth(T): it
\* is 2^e exactly for e <= max_exponent(T), and it is the value of
\* int_power_dispatch(T{2}, e) for every e.
C24_LargeOptimizedIsPowerOfTwo ==
  Done("int_power_2_large_optimized") =>
    /\ ret.val = Wrap(argT, ZPow2(argExp))
    /\ argExp <= max_exponent(argT) => ret.val = ZPow2(argExp)
    /\ ret.val = int_power_dispatch(argT, ZTwo, argExp).val

\* 2^127 in unsigned 128 bits, computed as (2^31)^4 * 2^3
C24_Witness ==
  /\ Done("int_power_2_large_optimized")
  /\ argT = uint128_t /\ argExp = 127
  /\ ret.decomposed /\ ret.quotient = 4 /\ ret.remainder = 3
  /\ ret.val = ZPow2(127)

\* 2^120 in signed 128 bits is exact, although the last squaring of the
\* chunk, (2^120)^2, overflows the type
C24_WitnessExactAfterOverflow ==
  /\ Done("int_power_2_large_optimized")
  /\ argT = int128_t /\ argExp = 120
  /\ ret.val = ZPow2(120) /\ ret.ub

\* 2^66 in 64 bits is reduced to 0, as by the binary exponentiation
C24_WitnessReduced ==
  /\ Done("int_power_2_large_optimized")
  /\ argT = uint64_t /\ argExp = 66
  /\ ret.val = ZZero /\ ret.ovf

\* The number of bits set in n >= 0
RECURSIVE BitsSet(_)
BitsSet(n) == IF n <= 0 THEN 0 ELSE (n % 2) + BitsSet(n \div 2)

\* The calls that run the square-and-multiply loop of int_power_basic, of
\* int_power_signed_impl (the dispatch of a signed type) and of
\* int_power_unsigned_impl (the dispatch of an unsigned type)
LoopCall == Done("int_power_basic") \/ Done("int_power_dispatch")

SignedImplCall == Done("int_power_dispatch") /\ is_signed_extended_v(argT)

\* The base returns before the loop
ReturnsEarly ==
  \/ argBase = ZZero
  \/ argBase = ZOne
  \/ SignedImplCall /\ argBase = ZMinusOne

C25_WitnessIterations ==
  /\ Done("int_power_basic")
  /\ argBase = ZInt(3) /\ argExp = 7
  /\ ret.iters = 3 /\ ret.mults = 6

\* The exponent is between 0 and the maximum returned for the type
WithinMax == ret.has_max /\ argExp >= 0 /\ argExp <= ret.max

\* The exponent is an index of the table of the type
IsTableIndex == argExp >= 0 /\ argExp < ret.size

\* C26: the range predicates match the tables.  In
\* simplified_power_tables_cpp14.hpp, for the six table types, and in
\* power_of_2_lookup_tables.hpp, for the types of 8 and 16 bits,
\* is_valid_power_of_2_exponent<T>(e) holds exactly when
\* 0 <= e <= get_max_power_of_2_exponent<T>(), which is exactly when e is an
\* index of the table of T.  In power_of_2_lookup_tables.hpp the predicate is
\* false for every exponent at int32_t and uint32_t, and the maximum is not
\* defined there.
C26_PredicatesMatchTablesWhereDefined ==
  /\ Done("cpp14_is_valid_power_of_2_exponent") =>
       /\ ret.valid <=> WithinMax
       /\ ret.valid <=> IsTableIndex
  /\ Done("is_valid_power_of_2_exponent") =>
       IF argT \in SmallTypes
       THEN /\ ret.valid <=> WithinMax
            /\ ret.valid <=> IsTableIndex
       ELSE ~ret.valid /\ ~ret.has_max

\* C26 as stated: in both headers and for the six table types the predicate
\* holds exactly for the indices of the table.
C26_PredicatesMatchAllSixTables ==
  (Done("cpp14_is_valid_power_of_2_exponent")
     \/ Done("is_valid_power_of_2_exponent")) =>
    /\ ret.valid <=> WithinMax
    /\ ret.valid <=> IsTableIndex

\* The last index of the int32_t table is valid in the cpp14 header
C26_Witness ==
  /\ Done("cpp14_is_valid_power_of_2_exponent")
  /\ argT = int32_t /\ argExp = 30
  /\ ret.valid /\ ret.max = 30 /\ ret.size = 31

\* The first exponent past the uint8_t table is not valid in the lookup header
C26_WitnessPastTheEnd ==
  /\ Done("is_valid_power_of_2_exponent")
  /\ argT = uint8_t /\ argExp = 8
  /\ ~ret.valid /\ ret.max = 7 /\ ret.size = 8

\* b^e reduced to T after each of e multiplications, as two runs of about
\* e/2
RECURSIVE WrappedPowerFrom(_, _, _, _)
WrappedPowerFrom(T, b, e, acc) ==
  IF e <= 0 \/ acc = ZZero THEN acc
  ELSE IF e = 1 THEN Wrap(T, ZMul(acc, b))
  ELSE WrappedPowerFrom(T, b, e - (e \div 2),
                        WrappedPowerFrom(T, b, e \div 2, acc))

WrappedPower(T, b, e) == WrappedPowerFrom(T, b, e, Wrap(T, ZOne))

\* The base the loop started from: -base in the loop of int_power_signed_impl
LoopBase ==
  IF fn = "int_power_signed_impl" THEN ZNeg(argBase) ELSE argBase

\* result * current_base^current_exp is congruent to the power asked for
LoopInvariant ==
  (pc = "loop" /\ argExp >= 0) =>
    /\ ret.current_exp >= 0
    /\ Wrap(argT, ZMul(ret.result,
                       WrappedPower(argT, ret.current_base, ret.current_exp)))
         = WrappedPower(argT, LoopBase, argExp)

\* current_exp is smaller after every pass
ExponentDecreases ==
  (pc = "loop" /\ pc' = "loop") => ret'.current_exp < ret.current_exp

\* C27: in the loops of int_power_basic, int_power_unsigned_impl and
\* int_power_signed_impl, for an exponent >= 0, at the start of every
\* iteration and at the exit of the loop result * current_base^current_exp is
\* congruent modulo 2^bitwidth(T) to the power of the base the loop started
\* from, current_exp is >= 0, and current_exp strictly decreases from one
\* iteration to the next.
C27_LoopInvariant == []LoopInvariant /\ [][ExponentDecreases]_vars

\* The loop of int_power_basic<int8_t>(3, 5) before its last pass: result is
\* 3, current_base is 81 and current_exp is 1
C27_Witness ==
  /\ pc = "loop" /\ fn = "int_power_basic"
  /\ argT = int8_t /\ argBase = ZInt(3) /\ argExp = 5
  /\ ret.result = ZInt(3) /\ ret.current_base = ZInt(81)
  /\ ret.current_exp = 1 /\ ret.iters = 2

\* The exit of a loop whose products overflowed: int_power_basic<uint8_t>(3, 7)
C27_WitnessExit ==
  /\ pc = "loop" /\ fn = "int_power_basic"
  /\ argT = uint8_t /\ argBase = ZInt(3) /\ argExp = 7
  /\ ret.current_exp = 0 /\ ret.ovf
  /\ ret.result = ZInt(139)

\* A call of int_power_basic or of int_power_signed_impl on a signed type,
\* with an exponent >= 0 and a base whose negation, where the code takes it,
\* stays in the type
SignedPowerCall ==
  /\ Done("int_power_basic") \/ Done("int_power_dispatch")
  /\ is_signed_extended_v(argT)
  /\ argExp >= 0
  /\ argBase # TMin(argT)

\* C28: for a signed type T, a base and an exponent e >= 0 with base^e
\* representable in T, no multiplication of int_power_basic or of
\* int_power_signed_impl gives a value outside the range of T, the squaring of
\* the last iteration included.
C28_NoSpuriousOverflow ==
  (SignedPowerCall /\ ExactPower(argT, argBase, argExp).fits) => ~ret.ovf

\* While an iteration is still to come no product has left the range of T:
\* when base^e is representable only the squaring of the last iteration,
\* whose value is never used, can overflow.
C28_OverflowOnlyInLastSquaring ==
  (/\ pc = "loop"
   /\ is_signed_extended_v(argT)
   /\ argExp >= 0
   /\ argBase # TMin(argT)
   /\ ExactPower(argT, argBase, argExp).fits
   /\ ret.current_exp > 0) => ~ret.ovf

SmallTypeCall == Done("int_power_small_type") \/ Done("int_power_2_small")

\* C29: every table read of the functions of the 8 and 16 bit types is in
\* bounds, for every base and every exponent, the negative ones included:
\* the index is at least 0 and below the size of the table.
C29_TableReadsInBounds ==
  (SmallTypeCall /\ ret.indexed) =>
    (ret.index >= 0 /\ ret.index < ret.size)

\* For an exponent >= 0 every table read is in bounds, and so is every read
\* of int_power_2_int8, int_power_2_uint8, int_power_2_int16 and
\* int_power_2_uint16 whatever the exponent.
C29_InBoundsForExponentsFromZero ==
  (/\ SmallTypeCall
   /\ ret.indexed
   /\ argExp >= 0 \/ argBase = ZTwo) =>
    (ret.index >= 0 /\ ret.index < ret.size /\ ~ret.ub)

\* C30: for the types of 8 and 16 bits, every base and every exponent e >= 0,
\* those for which base^e overflows included, int_power_small_type<T>(base, e)
\* returns the value int_power_smart<T>(base, e) returns.
C30_SmallTypeAgreesWithSmart ==
  (Done("int_power_small_type") /\ argExp >= 0) =>
    ret.val = int_power_smart(argT, argBase, argExp).val

\* The two agree for every exponent >= 0 unless the base is 2 and the
\* exponent is past the table of the type.
C30_AgreeButForTwoPastTheTable ==
  (/\ Done("int_power_small_type")
   /\ argExp >= 0
   /\ argBase = ZTwo => is_valid_power_of_2_exponent(argT, argExp)) =>
    ret.val = int_power_smart(argT, argBase, argExp).val

====
